---- MODULE Spec2Model ----
(***************************************************************************)
(* A model of the chordial audio engine: the node graph owned by Engine,   *)
(* the pull-based render (Engine::render, Engine::poll_node_output,        *)
(* NodeInstance::render, NodeUtil::poll_input, poll_input_into_buffer),    *)
(* the per-buffer reader-writer locks taken on the render thread, and the  *)
(* graph mutators (create_node, delete_node, load).                        *)
(*                                                                         *)
(* Samples are fixed-point integers with One units per 1.0; float rounding *)
(* is outside the model.  Sequences are 1-based, so the source's index k   *)
(* is the model's index k + 1.                                             *)
(***************************************************************************)
EXTENDS Integers, Sequences, FiniteSets, TLC

\* ------------------------------------------------------------------ bounds
MaxNodeId == 3      \* create_node is explored while the new id stays <= MaxNodeId
MaxEdges == 1       \* the host adds edges while the graph has fewer than MaxEdges
MaxBufLen == 2      \* host buffers of 0..MaxBufLen frames
MaxPosition == 3

\* the frames a scenario is played for
ScenarioFrames == 7

\* the largest frame count the timeline conversions are applied to
MaxFrames == 500

\* the frames of a buffer a voice tracker is driven over
MaxDrive == 3

\* the voice progress up to which the trackers are explored
MaxProgress == 4

\* the largest release_length and the largest polyphony cap of a tracker
MaxRelease == 2
MaxPolyphony == 1

\* the messages the MIDI callback has sent that no render has yet received
MaxQueue == 2

\* the frames after start_frame and end_frame the gain is evaluated at
MaxGainFrames == 9

\* the resources the engine holds while handles are linked, and the notes
\* a block is given through its handles
MaxClips == 2
MaxResources == 2
MaxNotes == 1

\* --------------------------------------------------------------- constants
STEP_DIVISIONS == 24
BEAT_DIVISIONS == 4
One == 4            \* fixed-point representation of the sample value 1.0
UsizeMax == 2147483647

\* the Config of Engine::new(8)
NewConfig == [sample_rate |-> 8, bpm |-> 120]

None == [none |-> TRUE]
Some(x) == [some |-> x]

\* ------------------------------------------------------------ data model
OutputRef(n, o) == [node |-> n, output |-> o]

BusKind == {"Audio", "Midi", "Control"}

FrameZero == <<0, 0>>

\* Buffer::from_bus_kind
BufferFromBusKind(kind) == [kind |-> kind, data |-> <<>>]

\* the element Buffer::resize fills with
ZeroOf(kind) ==
    IF kind = "Audio" THEN FrameZero
    ELSE IF kind = "Midi" THEN <<>>
    ELSE 0

BufferLen(buf) == Len(buf.data)

\* Buffer::resize (Vec::resize: truncate, or extend with the zero element)
BufferResize(buf, len) ==
    [buf EXCEPT !.data =
        [k \in 1..len |-> IF k <= Len(buf.data) THEN buf.data[k] ELSE ZeroOf(buf.kind)]]

\* Buffer::clear
BufferClear(buf) == [buf EXCEPT !.data = <<>>]

\* ---------------------------------------------------------------- MIDI
\* MidiBlock.channels is an array of NumChannels note lists; MidiSplit has
\* as many outputs
NumChannels == 16

\* MidiMessage::new(MidiStatusByte::new(code, channel), [note, vel])
MidiMessage(code, channel, note, vel) ==
    [code |-> code, channel |-> channel, note |-> note, vel |-> vel]

\* the codes of MidiStatusCode; every other value of the code nibble of a
\* status byte (0xC0 program change, 0xF0 system) is written by its name
MidiStatusCodes ==
    {"NoteOff", "NoteOn", "PolyKeyPressure", "CtrlChange", "ChannelPressure",
     "PitchBendChange"}

\* MidiStatusCode::from_u8 reaches its panic! arm on the code of msg
FromU8Panics(msg) == msg.code \notin MidiStatusCodes

\* a chain holds a message whose status_byte().code() panics
ChainPanics(chain) == \E j \in 1..Len(chain) : FromU8Panics(chain[j])

\* MidiNoteDesc; pos and len in timeline units
MidiNoteDesc(pos, len, note, vel) == [pos |-> pos, len |-> len, note |-> note, vel |-> vel]

\* a MidiBlock holding `notes` on one channel and nothing on the others
MidiBlock(channel, notes) ==
    [channels |-> [c \in 1..NumChannels |-> IF c = channel + 1 THEN notes ELSE <<>>]]

\* PolyVoiceTracker::new
PolyVoiceTrackerNew == [voices |-> <<>>, polyphony |-> 0, release_length |-> 0]

\* MonoVoiceTracker::new
MonoVoiceTrackerNew == [voice |-> None, release_length |-> 0]

\* no tracker outside the engine's nodes; frame is the index of the frame
\* of the buffer the host is at
NoTracker == [mono |-> None, poly |-> None, frame |-> 0]

\* the constructor names Engine::new registers that the model covers
NodeCtors ==
    {"chordial.sink", "chordial.sine", "chordial.gain", "chordial.amplify",
     "chordial.control_value", "chordial.envelope", "chordial.trigger",
     "chordial.polyosc", "chordial.midi_split", "chordial.midi_clip"}

\* Node::get_inputs
GetInputs(ctor) ==
    CASE ctor = "chordial.sink" -> <<"Audio">>
      [] ctor = "chordial.gain" -> <<"Audio">>
      [] ctor = "chordial.amplify" -> <<"Audio", "Control">>
      [] ctor = "chordial.envelope" -> <<"Control", "Control", "Control", "Control", "Control">>
      [] ctor = "chordial.polyosc" -> <<"Midi">>
      [] ctor = "chordial.midi_split" -> <<"Midi">>
      [] OTHER -> <<>>

\* Node::get_outputs
GetOutputs(ctor) ==
    CASE ctor = "chordial.sink" -> <<>>
      [] ctor = "chordial.sine" -> <<"Audio">>
      [] ctor = "chordial.gain" -> <<"Audio">>
      [] ctor = "chordial.amplify" -> <<"Audio">>
      [] ctor = "chordial.control_value" -> <<"Control">>
      [] ctor = "chordial.envelope" -> <<"Control">>
      [] ctor = "chordial.trigger" -> <<"Control">>
      [] ctor = "chordial.polyosc" -> <<"Audio">>
      [] ctor = "chordial.midi_split" -> [k \in 1..NumChannels |-> "Midi"]
      [] ctor = "chordial.midi_clip" -> <<"Midi">>
      [] ctor = "chordial.cli.midi-in" -> <<"Midi">>
      [] ctor = "chordial.source" -> <<"Audio">>
      [] OTHER -> <<>>

\* Node::is_timeline_node
IsTimelineCtor(ctor) == ctor \in {"chordial.trigger", "chordial.midi_clip"}

\* Node::get_params, with ParamValue::from_desc as the initial value
GetParams(ctor) ==
    CASE ctor = "chordial.sine" -> <<[kind |-> "Float", val |-> 0]>>
      [] ctor = "chordial.gain" -> <<[kind |-> "Float", val |-> 0]>>
      [] ctor = "chordial.control_value" -> <<[kind |-> "Float", val |-> 0]>>
      [] ctor = "chordial.midi_split" -> <<[kind |-> "Bool", val |-> FALSE]>>
      [] ctor = "chordial.cli.midi-in" -> <<[kind |-> "String", val |-> ""]>>
      [] ctor = "chordial.source" -> <<[kind |-> "String", val |-> ""]>>
      [] OTHER -> <<>>

\* NodeInstance::new_dyn applied to the node the registered constructor builds:
\* Sine::new(440.0), Gain { gain: 0.0 }, ControlValue { value: 0.0 },
\* Envelope::new(), Trigger::new(), PolyOsc::new(), MidiSplit::new(),
\* MidiClip::new(ResourceHandle::nil(..))
NewDyn(ctor) ==
    [ ctor    |-> ctor,
      inputs  |-> [k \in 1..Len(GetInputs(ctor)) |->
                      [refs |-> <<>>, scratch |-> BufferFromBusKind("Control")]],
      outputs |-> [k \in 1..Len(GetOutputs(ctor)) |->
                      BufferFromBusKind(GetOutputs(ctor)[k])],
      params  |-> GetParams(ctor),
      pos     |-> 0,
      value   |-> 0,
      gain    |-> 0,
      rate    |-> 440,
      start   |-> UsizeMax,
      end     |-> UsizeMax,
      active  |-> FALSE,
      notes   |-> PolyVoiceTrackerNew,
      keep_channel |-> FALSE,
      data    |-> None,
      connection |-> None,
      port_name  |-> "",
      receiver   |-> None,
      tl      |-> [position |-> 0, start_offset |-> 0, end_offset |-> 0] ]

\* the kinds Engine::new registers a resource constructor for
ResourceKinds == {"MidiBlock"}

\* the extensions Engine::new registers a loader for
ResourceLoaderExts == {"wav"}

\* the factory a name is registered with: the one of Engine::new or one the
\* host supplies
Builtin == "builtin"

\* -------------------------------------------------------------- the state
VARIABLES
    registry,       \* Engine.node_ctors, resource_ctors, resource_loaders
    nodes,          \* Engine.nodes: id -> NodeInstance
    node_counter,   \* Engine.node_counter
    resources,      \* Engine.resources: id -> ResourceData
    playing,        \* Engine.playing
    position,       \* Engine.position
    config,         \* Engine.config
    voice_tracker,  \* the voice tracker the host drives, and its frame cursor
    last            \* the last operation applied, its arguments and its outcome

vars == <<registry, nodes, node_counter, resources, playing, position, config,
         voice_tracker, last>>

\* Engine.config, which no operation of the engine assigns
Config == config

NoOp == [op |-> "new", arg |-> None, ret |-> None, len |-> 0, prior |-> <<>>,
         out |-> <<>>, status |-> "ok", log |-> <<>>]

\* a panic or a deadlock of the render thread ends the run
Alive == last.status = "ok"

\* the while loop of add_node_dyn: probe upward from node_counter
RECURSIVE Probe(_, _)
Probe(c, dom) == IF c \in dom THEN Probe(c + 1, dom) ELSE c

\* Engine::add_node_dyn: the id the new instance is stored under
AddNodeDynId(counter, dom) == Probe(counter, dom)

\* Engine::new: every field, then create_node("chordial.sink")
Init ==
    /\ registry = [node_ctors       |-> [name \in NodeCtors |-> Builtin],
                   resource_ctors   |-> [kind \in ResourceKinds |-> Builtin],
                   resource_loaders |-> [ext \in ResourceLoaderExts |-> Builtin]]
    /\ nodes = (0 :> NewDyn("chordial.sink"))
    /\ node_counter = 0
    /\ resources = << >>
    /\ playing = FALSE
    /\ position = 0
    /\ config = NewConfig
    /\ voice_tracker = NoTracker
    /\ last = NoOp

\* Engine::create_node
CreateNode(name) ==
    /\ Alive
    /\ IF name \notin DOMAIN registry.node_ctors
       THEN /\ last' = [NoOp EXCEPT !.op = "create", !.arg = Some(name), !.ret = None]
            /\ UNCHANGED <<config, voice_tracker, registry, resources, nodes, node_counter, playing, position>>
       ELSE LET id == AddNodeDynId(node_counter, DOMAIN nodes) IN
            /\ id <= MaxNodeId
            /\ nodes' = [k \in DOMAIN nodes \cup {id} |->
                            IF k = id THEN NewDyn(name) ELSE nodes[k]]
            /\ node_counter' = id
            /\ last' = [NoOp EXCEPT !.op = "create", !.arg = Some(name), !.ret = Some(id)]
            /\ UNCHANGED <<config, voice_tracker, registry, resources, playing, position>>

\* the retain of delete_node on one input list
ScrubRefs(refs, node) == SelectSeq(refs, LAMBDA r : r.node # node)

\* faulty variant of ScrubInstance: the node goes, its OutputRefs stay
ScrubNothing(inst, node) == inst

\* the scrub loop of delete_node on one remaining instance
ScrubInstance(inst, node) ==
    [inst EXCEPT !.inputs =
        [k \in 1..Len(inst.inputs) |->
            [inst.inputs[k] EXCEPT !.refs = ScrubRefs(@, node)]]]

\* Engine::delete_node
DeleteNode(node) ==
    /\ Alive
    /\ nodes' = IF node \notin DOMAIN nodes
                THEN nodes
                ELSE [k \in DOMAIN nodes \ {node} |-> ScrubInstance(nodes[k], node)]
    /\ last' = [NoOp EXCEPT !.op = "delete", !.arg = Some(node)]
    /\ UNCHANGED <<config, voice_tracker, registry, resources, node_counter, playing, position>>

\* the number of OutputRefs stored in the graph
RECURSIVE SumInputs(_, _)
SumInputs(inputs, k) ==
    IF k > Len(inputs) THEN 0 ELSE Len(inputs[k].refs) + SumInputs(inputs, k + 1)

RECURSIVE SumNodes(_, _)
SumNodes(ns, S) ==
    IF S = {} THEN 0
    ELSE LET n == CHOOSE n \in S : TRUE
         IN SumInputs(ns[n].inputs, 1) + SumNodes(ns, S \ {n})

NumEdges(ns) == SumNodes(ns, DOMAIN ns)

\* HashMap::insert: the entry of key k becomes v, replacing an earlier one
Insert(map, k, v) == [x \in DOMAIN map \cup {k} |-> IF x = k THEN v ELSE map[x]]

\* Engine::register_node
RegisterNode(name, ctor) ==
    /\ Alive
    /\ IF name \in DOMAIN registry.node_ctors
       THEN /\ last' = [NoOp EXCEPT !.op = "register_node", !.arg = Some(name),
                                    !.status = "panic"]
            /\ UNCHANGED registry
       ELSE /\ registry' = [registry EXCEPT !.node_ctors = Insert(@, name, ctor)]
            /\ last' = [NoOp EXCEPT !.op = "register_node", !.arg = Some(name)]
    /\ UNCHANGED <<config, voice_tracker, resources, nodes, node_counter, playing, position>>

\* the resource kinds the assert! of register_resource rejects
WhitespaceKinds == {"Midi Block"}

\* Engine::register_resource; kind is what the constructed resource reports
RegisterResource(kind, ctor) ==
    /\ Alive
    /\ IF kind \in WhitespaceKinds
       THEN /\ last' = [NoOp EXCEPT !.op = "register_resource", !.arg = Some(kind),
                                    !.status = "panic"]
            /\ UNCHANGED registry
       ELSE /\ registry' = [registry EXCEPT !.resource_ctors = Insert(@, kind, ctor)]
            /\ last' = [NoOp EXCEPT !.op = "register_resource", !.arg = Some(kind)]
    /\ UNCHANGED <<config, voice_tracker, resources, nodes, node_counter, playing, position>>

\* the loop of register_resource_loader over the extensions from the k-th on
RECURSIVE InsertLoaders(_, _, _, _)
InsertLoaders(map, exts, k, loader) ==
    IF k > Len(exts) THEN map
    ELSE InsertLoaders(Insert(map, exts[k], loader), exts, k + 1, loader)

\* Engine::register_resource_loader; exts is what loader.extensions() returns
RegisterResourceLoader(exts, loader) ==
    /\ Alive
    /\ registry' = [registry EXCEPT
                       !.resource_loaders = InsertLoaders(@, exts, 1, loader)]
    /\ last' = [NoOp EXCEPT !.op = "register_resource_loader", !.arg = Some(exts)]
    /\ UNCHANGED <<config, voice_tracker, resources, nodes, node_counter, playing, position>>

\* the closure MidiIn::param_updated hands to midir, run on midir's thread
\* for one incoming message: sender.send into the channel of the connection
MidiCallback(node, msg) ==
    /\ Alive
    /\ node \in DOMAIN nodes
    /\ nodes[node].ctor = "chordial.cli.midi-in"
    /\ nodes[node].connection # None
    /\ Len(nodes[node].receiver.some) < MaxQueue
    /\ nodes' = [nodes EXCEPT ![node].receiver = Some(Append(@.some, msg))]
    /\ last' = [NoOp EXCEPT !.op = "midi_callback", !.arg = Some(msg)]
    /\ UNCHANGED <<config, voice_tracker, registry, resources, node_counter, playing, position>>

\* the host pushes an OutputRef onto NodeInstance.inputs[input].0
Connect(node, input, ref) ==
    /\ Alive
    /\ node \in DOMAIN nodes
    /\ input < Len(nodes[node].inputs)
    /\ ref.node \in DOMAIN nodes
    /\ ref.output < Len(nodes[ref.node].outputs)
    /\ NumEdges(nodes) < MaxEdges
    /\ nodes' = [nodes EXCEPT ![node].inputs[input + 1].refs = Append(@, ref)]
    /\ last' = [NoOp EXCEPT !.op = "connect", !.arg = Some(<<node, input, ref>>)]
    /\ UNCHANGED <<config, voice_tracker, registry, resources, node_counter, playing, position>>

\* the host assigns the public field Engine.playing
SetPlaying(b) ==
    /\ Alive
    /\ playing # b
    /\ playing' = b
    /\ last' = [NoOp EXCEPT !.op = "set_playing", !.arg = Some(b)]
    /\ UNCHANGED <<config, voice_tracker, registry, resources, nodes, node_counter, position>>


\* ------------------------------------------------------ timeline conversion
\* Config::tl_units_to_frames, in exact integer arithmetic
TlUnitsToFrames(tl) ==
    (tl * 60 * Config.sample_rate) \div (STEP_DIVISIONS * BEAT_DIVISIONS * Config.bpm)

\* Config::frames_to_tl_units, in exact integer arithmetic
FramesToTlUnits(frames) ==
    (frames * Config.bpm * STEP_DIVISIONS * BEAT_DIVISIONS) \div (Config.sample_rate * 60)

\* Config::tl_units_to_frames of a Config the host has set, the quotient taken
\* exactly and truncated as the cast to usize does
ConfigTlUnitsToFrames(cfg, tl) ==
    (tl * 60 * cfg.sample_rate) \div (STEP_DIVISIONS * BEAT_DIVISIONS * cfg.bpm)

\* Config::frames_to_tl_units of a Config the host has set
ConfigFramesToTlUnits(cfg, frames) ==
    (frames * cfg.bpm * STEP_DIVISIONS * BEAT_DIVISIONS) \div (cfg.sample_rate * 60)

Max(a, b) == IF a > b THEN a ELSE b

\* the largest pos + len over the notes of a MidiBlock, from channel c on
RECURSIVE MaxNoteEnd(_, _, _)
MaxNoteEnd(block, c, max) ==
    IF c > NumChannels THEN max
    ELSE LET ch == block.channels[c]
             ends == {ch[k].pos + ch[k].len : k \in 1..Len(ch)}
         IN  MaxNoteEnd(block, c + 1,
                        IF ends = {} THEN max
                        ELSE Max(max, CHOOSE e \in ends : \A f \in ends : f <= e))

\* Node::get_timeline_length of the timeline nodes of the model
GetTimelineLength(inst) ==
    IF inst.ctor = "chordial.midi_clip"
    THEN IF inst.data = None THEN 1 ELSE MaxNoteEnd(inst.data.some.data, 1, 0)
    ELSE 1

\* faulty variant of OutsideTimelineSpan: the span taken as half-open, so
\* a window starting at its end or ending at its start is skipped
OutsideHalfOpenSpan(inst, pos, buffer_len) ==
    LET tl_pos == FramesToTlUnits(pos)
        buffer_len_tl == FramesToTlUnits(buffer_len)
        node_end == inst.tl.position + GetTimelineLength(inst)
                        - inst.tl.start_offset - inst.tl.end_offset
    IN  tl_pos + buffer_len_tl <= inst.tl.position \/ tl_pos >= node_end

\* the skip condition of poll_node_output
OutsideTimelineSpan(inst, pos, buffer_len) ==
    LET tl_pos == FramesToTlUnits(pos)
        buffer_len_tl == FramesToTlUnits(buffer_len)
        node_end == inst.tl.position + GetTimelineLength(inst)
                        - inst.tl.start_offset - inst.tl.end_offset
    IN  tl_pos + buffer_len_tl < inst.tl.position \/ tl_pos > node_end

\* ------------------------------------------------------------ sample maths
AddFrame(a, b) == <<a[1] + b[1], a[2] + b[2]>>

\* `*l *= fac; *r *= fac` with the factor as a ratio; the quotient is exact
\* for the samples of the model
MulFrame(a, fac) == <<(a[1] * fac.num) \div fac.den, (a[2] * fac.num) \div fac.den>>

\* the fixed-point product of a sample and a control value
FixMul(a, b) == (a * b) \div One

Min(a, b) == IF a < b THEN a ELSE b

\* the `*a += *b` / append_chain arms of poll_input and poll_input_into_buffer,
\* applied through iter_mut().zip(buf): only the common prefix is touched
ZipAdd(kind, acc, src) ==
    [k \in 1..Len(acc) |->
        IF k > Len(src) THEN acc[k]
        ELSE IF kind = "Audio" THEN AddFrame(acc[k], src[k])
        ELSE IF kind = "Midi" THEN acc[k] \o src[k]
        ELSE acc[k] + src[k]]

\* the powers of ten util::db_to_factor takes on the gains of the model
\* (multiples of 10 dB)
RECURSIVE Pow10(_)
Pow10(k) == IF k <= 0 THEN 1 ELSE 10 * Pow10(k - 1)

\* faulty variant of DbToFactor: the amplitude convention 10^(db / 20)
DbToFactorAmplitude(db) ==
    IF db >= 0 THEN [num |-> Pow10(db \div 20), den |-> 1]
    ELSE [num |-> 1, den |-> Pow10((0 - db) \div 20)]

\* 10.0f32.powf(db / 10.0) as the ratio num / den
DbToFactor(db) ==
    IF db >= 0 THEN [num |-> Pow10(db \div 10), den |-> 1]
    ELSE [num |-> 1, den |-> Pow10((0 - db) \div 10)]

\* Sine::render, one sample: sin(TAU * time * rate) at the quarter periods
SineSample(t, rate) ==
    LET q == ((4 * t * rate) \div Config.sample_rate) % 4
    IN  IF q = 1 THEN One ELSE IF q = 3 THEN 0 - One ELSE 0

\* Envelope::get_gain; tf = frames since start, atk/dec/sus fixed-point
GetGain(atk, dec, sus, tf) ==
    LET sr == Config.sample_rate
        t2 == tf * One - atk * sr
    IN  IF tf * One < atk * sr THEN (tf * One * One) \div (atk * sr)
        ELSE IF t2 < dec * sr THEN (sus * t2) \div (dec * sr)
        ELSE sus

NaN == 0 - UsizeMax

\* Envelope::get_gain_released; tr = frames from start to release,
\* tc = frames since release
GetGainReleased(atk, dec, sus, rel, tr, tc) ==
    LET sr == Config.sample_rate
        gain == GetGain(atk, dec, sus, tr)
    IN  IF tc * One > rel * sr THEN 0
        ELSE IF rel = 0 THEN NaN
        ELSE (gain * (rel * sr - tc * One)) \div (rel * sr)

\* --------------------------------------------------------- the render path
\* The state threaded through one Engine::render call:
\*   nodes   the instances (output caches, scratch buffers, Envelope atomics)
\*   wheld   the output buffers whose write guard the render thread holds
\*   rheld   the output buffers whose read guards it holds, one entry per guard
\*   sheld   the scratch buffers (node, input) whose guard it holds
\*   status  "ok", "deadlock" (a lock the thread already holds) or "panic"
\*   log     what happened, in order
\*           "fanin": poll_input returned the scratch buffer of (node, input)
\*           holding buf, after polling sources whose outputs hold srcs
Event(ev, ref, buf, held) ==
    [ev |-> ev, ref |-> ref, buf |-> buf, held |-> held, kind |-> "", srcs |-> <<>>]

\* the outputs the sources of (n, input) hold
SourceOutputs(st, n, input) ==
    LET refs == st.nodes[n].inputs[input + 1].refs
    IN  [k \in 1..Len(refs) |-> st.nodes[refs[k].node].outputs[refs[k].output + 1].data]

FanInEvent(st, n, input, access) ==
    [ev |-> "fanin", ref |-> OutputRef(n, input), buf |-> access.data, held |-> FALSE,
     kind |-> access.kind, srcs |-> SourceOutputs(st, n, input)]

Fail(st, status) == [st EXCEPT !.status = status]

Logged(st, e) == [st EXCEPT !.log = Append(@, e)]

InSeq(x, seq) == \E k \in 1..Len(seq) : seq[k] = x

RECURSIVE PollNodeOutput(_, _, _, _)
RECURSIVE NodeInstanceRender(_, _, _, _, _)
RECURSIVE NodeRender(_, _, _, _, _)
RECURSIVE PollInput(_, _, _, _, _)
RECURSIVE PollInputFanIn(_, _, _, _, _, _, _)
RECURSIVE PollInputIntoBuffer(_, _, _, _, _)
RECURSIVE PollIntoLoop(_, _, _, _, _, _, _)
RECURSIVE EnvelopePoll(_, _, _, _, _, _)

\* the tail of poll_node_output: outputs[output_ref.output].read()
PollNodeOutputRead(st1, output_ref) ==
    IF st1.status # "ok" THEN st1
    ELSE IF output_ref.output >= Len(st1.nodes[output_ref.node].outputs)
    THEN Fail(st1, "panic")
    ELSE IF output_ref \in st1.wheld THEN Fail(st1, "deadlock")
    ELSE Logged(st1, Event("pull", output_ref,
                st1.nodes[output_ref.node].outputs[output_ref.output + 1].data, FALSE))

\* Engine::poll_node_output
PollNodeOutput(st, pos, output_ref, buffer_len) ==
    IF st.status # "ok" THEN st
    ELSE IF output_ref.node \notin DOMAIN st.nodes THEN Fail(st, "panic")
    ELSE IF /\ IsTimelineCtor(st.nodes[output_ref.node].ctor)
            /\ OutsideTimelineSpan(st.nodes[output_ref.node], pos, buffer_len)
    THEN PollNodeOutputRead(Logged(st, Event("skip", output_ref, <<>>, FALSE)), output_ref)
    ELSE PollNodeOutputRead(
            NodeInstanceRender(st, pos, output_ref.node, output_ref.output, buffer_len),
            output_ref)

\* the end of NodeInstance::render: the node wrote through the guard, the
\* guard is dropped
NodeInstanceRenderStore(r, n, output) ==
    IF r.st.status # "ok" THEN r.st
    ELSE [r.st EXCEPT !.wheld = @ \ {OutputRef(n, output)},
                      !.nodes[n].outputs[output + 1] = r.buf]

\* NodeInstance::render
NodeInstanceRender(st, pos, n, output, samples) ==
    LET inst == st.nodes[n]
        ref == OutputRef(n, output)
        held == ref \in st.wheld \/ InSeq(ref, st.rheld)
        st0 == Logged(st, Event("wlock", ref, <<>>, held))
    IN  IF output >= Len(inst.outputs) THEN Fail(st, "panic")
        ELSE IF held THEN Fail(st0, "deadlock")
        ELSE IF BufferLen(inst.outputs[output + 1]) >= samples THEN st0
        ELSE NodeInstanceRenderStore(
                NodeRender([Logged(st0, Event("render", ref, <<>>, FALSE))
                               EXCEPT !.wheld = @ \cup {ref}],
                           pos, n, output, BufferResize(inst.outputs[output + 1], samples)),
                n, output)

\* the single-source arm of poll_input: the guard poll_node_output returned
PollInputGuard(st1, ref) ==
    IF st1.status # "ok" THEN [st |-> st1, ret |-> None]
    ELSE [st  |-> [st1 EXCEPT !.rheld = Append(@, ref)],
          ret |-> Some(st1.nodes[ref.node].outputs[ref.output + 1])]

\* NodeUtil::poll_input; ret is the buffer behind the returned guard
PollInput(st, pos, n, input, buffer_len) ==
    LET inst == st.nodes[n] IN
    IF input >= Len(inst.inputs) THEN [st |-> Fail(st, "panic"), ret |-> None]
    ELSE
    LET refs == inst.inputs[input + 1].refs IN
    IF Len(refs) < 2
    THEN IF Len(refs) = 0 THEN [st |-> st, ret |-> None]
         ELSE PollInputGuard(PollNodeOutput(st, pos, refs[1], buffer_len), refs[1])
    ELSE IF <<n, input>> \in st.sheld THEN [st |-> Fail(st, "deadlock"), ret |-> None]
    ELSE PollInputFanIn([st EXCEPT !.sheld = @ \cup {<<n, input>>}], pos, n, input,
                        buffer_len, 1, inst.inputs[input + 1].scratch)

\* one turn of the fan-in loop of poll_input, past its poll_node_output:
\* reshape the scratch buffer, add the k-th source, go on
RECURSIVE PollInputFanInAdd(_, _, _, _, _, _, _)
PollInputFanInAdd(st1, pos, n, input, buffer_len, k, access) ==
    IF st1.status # "ok" THEN [st |-> st1, ret |-> None]
    ELSE
    LET ref == st1.nodes[n].inputs[input + 1].refs[k]
        buf == st1.nodes[ref.node].outputs[ref.output + 1]
        acc1 == IF BufferLen(access) # buffer_len
                THEN BufferResize(IF BufferLen(access) = 0
                                  THEN BufferFromBusKind(buf.kind)
                                  ELSE access, buffer_len)
                ELSE access
    IN  IF acc1.kind # buf.kind THEN [st |-> Fail(st1, "panic"), ret |-> None]
        ELSE PollInputFanIn(st1, pos, n, input, buffer_len, k + 1,
                            [acc1 EXCEPT !.data = ZipAdd(acc1.kind, @, buf.data)])

\* the fan-in loop of poll_input over refs.0, from the k-th source on;
\* access is the scratch buffer behind the write guard
PollInputFanIn(st, pos, n, input, buffer_len, k, access) ==
    IF k > Len(st.nodes[n].inputs[input + 1].refs)
    THEN [st  |-> Logged([st EXCEPT !.nodes[n].inputs[input + 1].scratch = access],
                         FanInEvent(st, n, input, access)),
          ret |-> Some(access)]
    ELSE PollInputFanInAdd(
            PollNodeOutput(st, pos, st.nodes[n].inputs[input + 1].refs[k], buffer_len),
            pos, n, input, buffer_len, k, access)

\* NodeUtil::poll_input_into_buffer
PollInputIntoBuffer(st, pos, n, input, buffer) ==
    LET inst == st.nodes[n] IN
    IF input >= Len(inst.inputs) THEN [st |-> Fail(st, "panic"), buf |-> buffer]
    ELSE IF <<n, input>> \in st.sheld THEN [st |-> Fail(st, "deadlock"), buf |-> buffer]
    ELSE PollIntoLoop([st EXCEPT !.sheld = @ \cup {<<n, input>>}], pos, n, input, 1,
                      buffer, inst.inputs[input + 1].scratch)

\* one turn of the loop of poll_input_into_buffer, past its poll_node_output:
\* reshape the scratch buffer, add the k-th source into the caller's buffer
RECURSIVE PollIntoLoopAdd(_, _, _, _, _, _, _)
PollIntoLoopAdd(st1, pos, n, input, k, buffer, access) ==
    IF st1.status # "ok" THEN [st |-> st1, buf |-> buffer]
    ELSE
    LET ref == st1.nodes[n].inputs[input + 1].refs[k]
        buf == st1.nodes[ref.node].outputs[ref.output + 1]
        acc1 == IF BufferLen(access) # BufferLen(buffer)
                THEN BufferResize(IF BufferLen(access) = 0
                                  THEN BufferFromBusKind(buf.kind)
                                  ELSE access, BufferLen(buffer))
                ELSE access
    IN  IF buffer.kind # buf.kind THEN [st |-> Fail(st1, "panic"), buf |-> buffer]
        ELSE PollIntoLoop(st1, pos, n, input, k + 1,
                          [buffer EXCEPT !.data = ZipAdd(buffer.kind, @, buf.data)], acc1)

\* the loop of poll_input_into_buffer over refs.0, from the k-th source on
PollIntoLoop(st, pos, n, input, k, buffer, access) ==
    IF k > Len(st.nodes[n].inputs[input + 1].refs)
    THEN [st  |-> [st EXCEPT !.nodes[n].inputs[input + 1].scratch = access,
                             !.sheld = @ \ {<<n, input>>}],
          buf |-> buffer]
    ELSE PollIntoLoopAdd(
            PollNodeOutput(st, pos, st.nodes[n].inputs[input + 1].refs[k],
                           BufferLen(buffer)),
            pos, n, input, k, buffer, access)

\* one `let Some(..) = self.poll_input(i, ..) else { return }` of
\* Envelope::render, past the poll
RECURSIVE EnvelopePollNext(_, _, _, _, _, _)
EnvelopePollNext(p, pos, n, i, buffer_len, bufs) ==
    IF p.st.status # "ok" \/ p.ret = None
    THEN [st |-> p.st, bufs |-> bufs, none |-> TRUE]
    ELSE EnvelopePoll(p.st, pos, n, i + 1, buffer_len, Append(bufs, p.ret.some))

\* the five polls of Envelope::render, from input i on; bufs collects the
\* polled buffers
EnvelopePoll(st, pos, n, i, buffer_len, bufs) ==
    IF i > 4 THEN [st |-> st, bufs |-> bufs, none |-> FALSE]
    ELSE EnvelopePollNext(PollInput(st, pos, n, i, buffer_len), pos, n, i, buffer_len, bufs)

\* faulty variant of TrigHigh: a trig of exactly 0.5 does not count
TrigAboveHalf(trig) == 2 * trig > One

\* trig_buf[i] >= 0.5
TrigHigh(trig) == 2 * trig >= One

\* the per-frame closure of Envelope::render, from frame i on;
\* e carries the atomics start, end, active and the output written so far
RECURSIVE EnvelopeFrames(_, _, _, _)
EnvelopeFrames(e, npos, bufs, i) ==
    IF i >= Len(e.out) \/ e.panic THEN e
    ELSE IF i >= Len(bufs[5].data) THEN [e EXCEPT !.panic = TRUE]
    ELSE
    LET trig == bufs[5].data[i + 1]
        rise == ~e.active /\ TrigHigh(trig)
        fall == e.active /\ ~TrigHigh(trig)
        e1 == IF rise THEN [e EXCEPT !.start = npos + i, !.active = TRUE]
              ELSE IF fall THEN [e EXCEPT !.end = npos + i, !.active = FALSE]
              ELSE e
        short == \E j \in 1..4 : i >= Len(bufs[j].data)
        atk == bufs[1].data[i + 1]
        dec == bufs[2].data[i + 1]
        sus == bufs[3].data[i + 1]
        rel == bufs[4].data[i + 1]
    IN  IF npos + i < e1.start THEN EnvelopeFrames(e1, npos, bufs, i + 1)
        ELSE IF short THEN [e1 EXCEPT !.panic = TRUE]
        ELSE EnvelopeFrames(
                [e1 EXCEPT !.out[i + 1] =
                    IF e1.active
                    THEN GetGain(atk, dec, sus, (npos + i) - e1.start)
                    ELSE GetGainReleased(atk, dec, sus, rel, e1.end - e1.start,
                                         (npos + i) - e1.end)],
                npos, bufs, i + 1)

\* Trigger::render
TriggerRender(inst, buf) ==
    LET node_pos_tl == TlUnitsToFrames(inst.tl.position)
        relative == node_pos_tl - inst.pos
    IN  IF buf.kind # "Control" THEN buf
        ELSE IF node_pos_tl >= inst.pos /\ relative < BufferLen(buf)
        THEN [buf EXCEPT !.data[relative + 1] = One]
        ELSE buf

\* Gain::render past the poll: every frame times the factor
GainApply(p, fac) ==
    IF p.st.status # "ok" THEN p
    ELSE IF p.buf.kind # "Audio" THEN [st |-> Fail(p.st, "panic"), buf |-> p.buf]
    ELSE [st |-> p.st,
          buf |-> [p.buf EXCEPT !.data = [k \in 1..Len(@) |-> MulFrame(@[k], fac)]]]

\* faulty variant of AmplifyApply: an amp buffer of another kind is ignored
AmplifyApplyLenient(q, buf) ==
    IF q.st.status # "ok" \/ q.ret = None THEN [st |-> q.st, buf |-> buf]
    ELSE IF buf.kind # "Audio" THEN [st |-> Fail(q.st, "panic"), buf |-> buf]
    ELSE IF q.ret.some.kind # "Control" THEN [st |-> q.st, buf |-> buf]
    ELSE [st |-> q.st,
          buf |-> [buf EXCEPT !.data =
                      [k \in 1..Len(@) |->
                          IF k > Len(q.ret.some.data) THEN @[k]
                          ELSE <<FixMul(@[k][1], q.ret.some.data[k]),
                                 FixMul(@[k][2], q.ret.some.data[k])>>]]]

\* Amplify::render past the poll of amp: the zip of the buffer with amp
AmplifyApply(q, buf) ==
    IF q.st.status # "ok" \/ q.ret = None THEN [st |-> q.st, buf |-> buf]
    ELSE IF buf.kind # "Audio" \/ q.ret.some.kind # "Control"
    THEN [st |-> Fail(q.st, "panic"), buf |-> buf]
    ELSE [st |-> q.st,
          buf |-> [buf EXCEPT !.data =
                      [k \in 1..Len(@) |->
                          IF k > Len(q.ret.some.data) THEN @[k]
                          ELSE <<FixMul(@[k][1], q.ret.some.data[k]),
                                 FixMul(@[k][2], q.ret.some.data[k])>>]]]

\* Amplify::render past poll_input_into_buffer(0): the poll of amp
AmplifyPollAmp(p, pos, n) ==
    IF p.st.status # "ok" THEN p
    ELSE AmplifyApply(PollInput(p.st, pos, n, 1, BufferLen(p.buf)), p.buf)

\* Envelope::render past its five polls: the kinds, then the frames
EnvelopeApply(p, n, buf) ==
    IF p.st.status # "ok" \/ p.none THEN [st |-> p.st, buf |-> buf]
    ELSE IF \E j \in 1..5 : p.bufs[j].kind # "Control"
    THEN [st |-> Fail(p.st, "panic"), buf |-> buf]
    ELSE
    LET inst == p.st.nodes[n]
        e == EnvelopeFrames([start |-> inst.start, end |-> inst.end,
                             active |-> inst.active, out |-> buf.data,
                             panic |-> FALSE], inst.pos, p.bufs, 0)
        st1 == [p.st EXCEPT !.nodes[n].start = e.start,
                            !.nodes[n].end = e.end,
                            !.nodes[n].active = e.active]
    IN  IF e.panic THEN [st |-> Fail(st1, "panic"), buf |-> buf]
        ELSE [st |-> st1, buf |-> [buf EXCEPT !.data = e.out]]

\* the body of MidiClip::render for one note of one channel at frame i:
\* the chain m with the note's start or end appended
MidiClipEmit(inst, i, channel, note, m) ==
    LET sample_pos == inst.pos + i
        tl_pos == FramesToTlUnits(sample_pos)
        prev_tl_pos == IF sample_pos > 0 THEN FramesToTlUnits(sample_pos - 1) ELSE 0
        note_pos == note.pos + inst.tl.position
        note_end == note_pos + note.len
    IN  IF tl_pos >= note_pos /\ (sample_pos = 0 \/ prev_tl_pos < note_pos)
        THEN Append(m, MidiMessage("NoteOn", channel, note.note, note.vel))
        ELSE IF tl_pos >= note_end /\ prev_tl_pos < note_end /\ note.len > 0
        THEN Append(m, MidiMessage("NoteOff", channel, note.note, note.vel))
        ELSE m

\* the two nested loops of MidiClip::render at frame i, from note k of
\* `channel` on
RECURSIVE MidiClipFrame(_, _, _, _, _)
MidiClipFrame(inst, i, channel, k, m) ==
    IF channel >= NumChannels THEN m
    ELSE IF k > Len(inst.data.some.data.channels[channel + 1])
    THEN MidiClipFrame(inst, i, channel + 1, 1, m)
    ELSE MidiClipFrame(inst, i, channel, k + 1,
            MidiClipEmit(inst, i, channel, inst.data.some.data.channels[channel + 1][k], m))

\* MidiClip::render
MidiClipRender(st, inst, buf) ==
    IF buf.kind # "Midi" THEN [st |-> Fail(st, "panic"), buf |-> buf]
    ELSE IF inst.data = None THEN [st |-> st, buf |-> buf]
    ELSE [st |-> st,
          buf |-> [buf EXCEPT !.data =
                      [k \in 1..Len(@) |-> MidiClipFrame(inst, k - 1, 0, 1, @[k])]]]

\* what MidiSplit::render pushes for one input chain on `output`
MidiSplitChain(m, output, keep_channel) ==
    LET sel == SelectSeq(m, LAMBDA msg : msg.channel = output)
    IN  [j \in 1..Len(sel) |->
            IF keep_channel THEN sel[j]
            ELSE MidiMessage(sel[j].code, 0, sel[j].note, sel[j].vel)]

\* MidiSplit::render past the poll: the zip of the buffer with the input
MidiSplitApply(q, output, buf, keep_channel) ==
    IF q.st.status # "ok" \/ q.ret = None THEN [st |-> q.st, buf |-> buf]
    ELSE IF q.ret.some.kind # "Midi" \/ buf.kind # "Midi"
    THEN [st |-> Fail(q.st, "panic"), buf |-> buf]
    ELSE IF /\ ~keep_channel
            /\ \E k \in 1..Min(Len(buf.data), Len(q.ret.some.data)) :
                   ChainPanics(SelectSeq(q.ret.some.data[k],
                                         LAMBDA msg : msg.channel = output))
    THEN [st |-> Fail(q.st, "panic"), buf |-> buf]
    ELSE [st |-> q.st,
          buf |-> [buf EXCEPT !.data =
                      [k \in 1..Len(@) |->
                          IF k > Len(q.ret.some.data) THEN @[k]
                          ELSE @[k] \o MidiSplitChain(q.ret.some.data[k], output,
                                                      keep_channel)]]]

\* the function f without the key k
Without(f, k) == [x \in DOMAIN f \ {k} |-> f[x]]

\* PolyVoiceTracker::release_voice
PolyReleaseVoice(tracker, channel, note, buffer_progress) ==
    IF tracker.release_length = 0
    THEN [tracker EXCEPT !.voices = Without(@, <<channel, note>>)]
    ELSE IF <<channel, note>> \notin DOMAIN tracker.voices THEN tracker
    ELSE LET voice == tracker.voices[<<channel, note>>] IN
         [tracker EXCEPT !.voices[<<channel, note>>] =
             [voice EXCEPT !.release_point = voice.progress + buffer_progress,
                           !.released = TRUE]]

\* faulty variant of PolyApplyMidiMessage: a NoteOn is inserted whatever
\* the number of voices
PolyApplyMidiMessageNoCap(tracker, msg, buffer_progress) ==
    LET desc == [note |-> msg.note, channel |-> msg.channel, velocity |-> msg.vel,
                 progress |-> 0, released |-> FALSE, release_point |-> 0]
        key == <<msg.channel, msg.note>>
    IN  CASE msg.code = "NoteOn" ->
                IF desc.velocity # 0
                THEN [tracker EXCEPT !.voices =
                         [x \in DOMAIN @ \cup {key} |-> IF x = key THEN desc ELSE @[x]]]
                ELSE PolyReleaseVoice(tracker, msg.channel, msg.note, buffer_progress)
          [] msg.code = "NoteOff" ->
                PolyReleaseVoice(tracker, msg.channel, msg.note, buffer_progress)
          [] OTHER -> tracker

\* PolyVoiceTracker::apply_midi_message
PolyApplyMidiMessage(tracker, msg, buffer_progress) ==
    LET desc == [note |-> msg.note, channel |-> msg.channel, velocity |-> msg.vel,
                 progress |-> 0, released |-> FALSE, release_point |-> 0]
        key == <<msg.channel, msg.note>>
    IN  CASE msg.code = "NoteOn" ->
                IF desc.velocity # 0
                THEN IF \/ Cardinality(DOMAIN tracker.voices) < tracker.polyphony
                        \/ tracker.polyphony = 0
                     THEN [tracker EXCEPT !.voices =
                              [x \in DOMAIN @ \cup {key} |->
                                  IF x = key THEN desc ELSE @[x]]]
                     ELSE tracker
                ELSE PolyReleaseVoice(tracker, msg.channel, msg.note, buffer_progress)
          [] msg.code = "NoteOff" ->
                PolyReleaseVoice(tracker, msg.channel, msg.note, buffer_progress)
          [] OTHER -> tracker

\* PolyVoiceTracker::apply_midi_chain, from the k-th message on
RECURSIVE PolyApplyMidiChain(_, _, _, _)
PolyApplyMidiChain(tracker, chain, k, buffer_progress) ==
    IF k > Len(chain) THEN tracker
    ELSE PolyApplyMidiChain(PolyApplyMidiMessage(tracker, chain[k], buffer_progress),
                            chain, k + 1, buffer_progress)

\* u32::MAX / 2; a u32 difference a - b with a < b wraps to 2^32 - (b - a)
U32MaxHalf == 2147483647

\* v.progress - v.release_point >= release_length in u32 arithmetic without
\* overflow checks
U32DiffAtLeast(v, release_length) ==
    IF v.progress >= v.release_point
    THEN v.progress - v.release_point >= release_length
    ELSE (v.release_point - v.progress + release_length - 1) \div 2 <= U32MaxHalf

\* the subtraction of purge_dead_voices is reached for v and underflows
SubtractionUnderflows(v) == v.released /\ v.release_point > v.progress

\* faulty variant of PurgeDeadVoices: every released voice is removed
PurgeReleasedVoices(tracker) ==
    [tracker EXCEPT !.voices = [x \in {y \in DOMAIN @ : ~@[y].released} |-> @[x]]]

\* PolyVoiceTracker::purge_dead_voices
PurgeDeadVoices(tracker) ==
    [tracker EXCEPT !.voices =
        [x \in {y \in DOMAIN @ : \/ ~@[y].released
                                 \/ ~U32DiffAtLeast(@[y], tracker.release_length)}
            |-> @[x]]]

\* PolyVoiceTracker::advance
PolyAdvance(tracker, samples) ==
    PurgeDeadVoices(
        [tracker EXCEPT !.voices =
            [x \in DOMAIN @ |-> [@[x] EXCEPT !.progress = @ + samples]]])

\* faulty variant of MonoReleaseVoice: the note alone is compared
MonoReleaseVoiceAnyChannel(tracker, channel, note, buffer_progress) ==
    IF tracker.voice = None THEN tracker
    ELSE LET active == tracker.voice.some IN
         IF active.note # note THEN tracker
         ELSE IF tracker.release_length = 0 THEN [tracker EXCEPT !.voice = None]
         ELSE [tracker EXCEPT !.voice =
                  Some([active EXCEPT !.released = TRUE,
                                      !.release_point = active.progress + buffer_progress])]

\* MonoVoiceTracker::release_voice
MonoReleaseVoice(tracker, channel, note, buffer_progress) ==
    IF tracker.voice = None THEN tracker
    ELSE LET active == tracker.voice.some IN
         IF active.note # note \/ active.channel # channel THEN tracker
         ELSE IF tracker.release_length = 0 THEN [tracker EXCEPT !.voice = None]
         ELSE [tracker EXCEPT !.voice =
                  Some([active EXCEPT !.released = TRUE,
                                      !.release_point = active.progress + buffer_progress])]

\* MonoVoiceTracker::apply_midi_message
MonoApplyMidiMessage(tracker, msg, buffer_progress) ==
    LET desc == [note |-> msg.note, channel |-> msg.channel, velocity |-> msg.vel,
                 progress |-> 0, released |-> FALSE, release_point |-> 0]
    IN  CASE msg.code = "NoteOn" ->
                IF desc.velocity # 0 THEN [tracker EXCEPT !.voice = Some(desc)]
                ELSE MonoReleaseVoice(tracker, msg.channel, msg.note, buffer_progress)
          [] msg.code = "NoteOff" ->
                MonoReleaseVoice(tracker, msg.channel, msg.note, buffer_progress)
          [] OTHER -> tracker

\* MonoVoiceTracker::apply_midi_chain, from the k-th message on
RECURSIVE MonoApplyMidiChain(_, _, _, _)
MonoApplyMidiChain(tracker, chain, k, buffer_progress) ==
    IF k > Len(chain) THEN tracker
    ELSE MonoApplyMidiChain(MonoApplyMidiMessage(tracker, chain[k], buffer_progress),
                            chain, k + 1, buffer_progress)

\* MonoVoiceTracker::purge_dead_voices
MonoPurgeDeadVoices(tracker) ==
    IF tracker.voice = None THEN tracker
    ELSE IF /\ tracker.voice.some.released
            /\ U32DiffAtLeast(tracker.voice.some, tracker.release_length)
    THEN [tracker EXCEPT !.voice = None]
    ELSE tracker

\* MonoVoiceTracker::advance
MonoAdvance(tracker, samples) ==
    IF tracker.voice = None THEN tracker
    ELSE MonoPurgeDeadVoices(
            [tracker EXCEPT !.voice = Some([@.some EXCEPT !.progress = @ + samples])])

\* the voices a tracker holds, as a set
MonoVoices(tracker) == IF tracker.voice = None THEN {} ELSE {tracker.voice.some}

PolyVoices(tracker) == {tracker.voices[x] : x \in DOMAIN tracker.voices}

\* the loop of Osc::render as far as the tracker goes, from frame i on: the
\* chain of the frame is applied with the frame index, the voice steps on
RECURSIVE OscFrames(_, _, _)
OscFrames(tracker, midi, i) ==
    IF i >= Len(midi) THEN tracker
    ELSE LET t1 == MonoApplyMidiChain(tracker, midi[i + 1], 1, i)
         IN  OscFrames(IF t1.voice = None THEN t1
                       ELSE [t1 EXCEPT !.voice =
                                Some([@.some EXCEPT !.progress = @ + 1])],
                       midi, i + 1)


\* 2^k
RECURSIVE Pow2(_)
Pow2(k) == IF k <= 0 THEN 1 ELSE 2 * Pow2(k - 1)

\* util::midi_to_freq on the notes whole octaves away from A4, where
\* 2^((note - 69) / 12) * 440 is exact
MidiToFreq(note) ==
    IF note >= 69 THEN 440 * Pow2((note - 69) \div 12)
    ELSE 440 \div Pow2((69 - note) \div 12)

\* one voice's term of PolyOsc::render: sin(TAU * time * rate) * vel
VoiceSample(voice) ==
    (SineSample(voice.progress, MidiToFreq(voice.note)) * voice.velocity) \div 127

\* the sum of VoiceSample over the voices with keys in S (the voices the
\* tracker holds, which PolyOsc::render walks)
RECURSIVE SumVoices(_, _)
SumVoices(voices, S) ==
    IF S = {} THEN 0
    ELSE LET x == CHOOSE y \in S : TRUE
         IN  VoiceSample(voices[x]) + SumVoices(voices, S \ {x})

\* the loop of PolyOsc::render over the zip of audio and midi, from frame i
\* on: the chain is applied, every voice adds its sample and steps on
RECURSIVE PolyOscFrames(_, _, _, _)
PolyOscFrames(tracker, audio, midi, i) ==
    IF i >= Min(Len(audio), Len(midi)) THEN [tracker |-> tracker, audio |-> audio]
    ELSE LET t1 == PolyApplyMidiChain(tracker, midi[i + 1], 1, i)
             s == SumVoices(t1.voices, DOMAIN t1.voices)
         IN  PolyOscFrames(
                [t1 EXCEPT !.voices = [x \in DOMAIN @ |->
                                          [@[x] EXCEPT !.progress = @ + 1]]],
                [audio EXCEPT ![i + 1] = AddFrame(@, <<s, s>>)],
                midi, i + 1)

\* PolyOsc::render past the poll
PolyOscApply(q, n, buf) ==
    IF q.st.status # "ok" \/ q.ret = None THEN [st |-> q.st, buf |-> buf]
    ELSE IF q.ret.some.kind # "Midi" \/ buf.kind # "Audio"
    THEN [st |-> Fail(q.st, "panic"), buf |-> buf]
    ELSE IF \E k \in 1..Min(Len(buf.data), Len(q.ret.some.data)) :
               ChainPanics(q.ret.some.data[k])
    THEN [st |-> Fail(q.st, "panic"), buf |-> buf]
    ELSE LET r == PolyOscFrames(q.st.nodes[n].notes, buf.data, q.ret.some.data, 0)
         IN  [st  |-> [q.st EXCEPT !.nodes[n].notes = PurgeDeadVoices(r.tracker)],
              buf |-> [buf EXCEPT !.data = r.audio]]

\* MidiIn::render: the try_recv loop empties the channel into frame 0
MidiInRender(st, n, buf) ==
    LET inst == st.nodes[n] IN
    IF inst.receiver = None THEN [st |-> st, buf |-> buf]
    ELSE IF buf.kind # "Midi" THEN [st |-> Fail(st, "panic"), buf |-> buf]
    ELSE [st  |-> [st EXCEPT !.nodes[n].receiver = Some(<<>>)],
          buf |-> [buf EXCEPT !.data[1] = @ \o inst.receiver.some]]

\* Node::render of the instance n, dispatched on the node's type; buf is the
\* BufferAccess handed in, the result carries it as the node left it
NodeRenderBody(st, pos, n, output, buf) ==
    LET inst == st.nodes[n]
        len == BufferLen(buf)
    IN
    CASE inst.ctor = "chordial.sink" ->
            PollInputIntoBuffer(st, pos, n, 0, buf)
      [] inst.ctor = "chordial.gain" ->
            GainApply(PollInputIntoBuffer(st, pos, n, 0, buf), DbToFactor(inst.gain))
      [] inst.ctor = "chordial.sine" ->
            IF buf.kind # "Audio" THEN [st |-> Fail(st, "panic"), buf |-> buf]
            ELSE [st |-> st,
                  buf |-> [buf EXCEPT !.data =
                              [k \in 1..len |->
                                  <<SineSample(inst.pos + (k - 1), inst.rate),
                                    SineSample(inst.pos + (k - 1), inst.rate)>>]]]
      [] inst.ctor = "chordial.control_value" ->
            IF buf.kind # "Control" THEN [st |-> st, buf |-> buf]
            ELSE [st |-> st, buf |-> [buf EXCEPT !.data = [k \in 1..len |-> inst.value]]]
      [] inst.ctor = "chordial.trigger" ->
            [st |-> st, buf |-> TriggerRender(inst, buf)]
      [] inst.ctor = "chordial.amplify" ->
            AmplifyPollAmp(PollInputIntoBuffer(st, pos, n, 0, buf), pos, n)
      [] inst.ctor = "chordial.envelope" ->
            IF buf.kind # "Control" THEN [st |-> Fail(st, "panic"), buf |-> buf]
            ELSE EnvelopeApply(EnvelopePoll(st, pos, n, 0, len, <<>>), n, buf)
      [] inst.ctor = "chordial.midi_clip" ->
            MidiClipRender(st, inst, buf)
      [] inst.ctor = "chordial.midi_split" ->
            MidiSplitApply(PollInput(st, pos, n, 0, len), output, buf, inst.keep_channel)
      [] inst.ctor = "chordial.polyosc" ->
            PolyOscApply(PollInput(st, pos, n, 0, len), n, buf)
      [] inst.ctor = "chordial.cli.midi-in" ->
            MidiInRender(st, n, buf)
      [] inst.ctor = "chordial.source" ->
            IF buf.kind # "Audio" THEN [st |-> Fail(st, "panic"), buf |-> buf]
            ELSE [st |-> st, buf |-> [buf EXCEPT !.data = [k \in 1..len |-> FrameZero]]]
      [] OTHER -> [st |-> Fail(st, "panic"), buf |-> buf]

\* the return of Node::render: the guards the body acquired are dropped
NodeRenderDrop(r, st) ==
    IF r.st.status # "ok" THEN r
    ELSE [r EXCEPT !.st.rheld = st.rheld, !.st.sheld = st.sheld]

\* Node::render together with the drop of the guards the body acquired
NodeRender(st, pos, n, output, buf) ==
    NodeRenderDrop(NodeRenderBody(st, pos, n, output, buf), st)

\* Node::advance of the instance's node
Advance(inst, frames) ==
    IF inst.ctor \in {"chordial.sine", "chordial.envelope", "chordial.trigger",
                     "chordial.polyosc", "chordial.midi_clip"}
    THEN [inst EXCEPT !.pos = @ + frames]
    ELSE inst

\* NodeInstance::clear_buffers
ClearBuffers(inst) ==
    [inst EXCEPT
        !.inputs = [k \in 1..Len(@) |->
                       IF BufferLen(@[k].scratch) > 0
                       THEN [@[k] EXCEPT !.scratch = BufferClear(@)]
                       ELSE @[k]],
        !.outputs = [k \in 1..Len(@) |-> BufferClear(@[k])]]

\* faulty variant of AdvanceAll: only the nodes that rendered an output in
\* this cycle are advanced and cleared
AdvanceRendered(ns, frames) ==
    [n \in DOMAIN ns |->
        IF \E k \in 1..Len(ns[n].outputs) : BufferLen(ns[n].outputs[k]) > 0
        THEN ClearBuffers(Advance(ns[n], frames))
        ELSE ns[n]]

\* the loop of Engine::render over self.nodes.values_mut()
AdvanceAll(ns, frames) ==
    [n \in DOMAIN ns |-> ClearBuffers(Advance(ns[n], frames))]

RenderState(ns) ==
    [nodes |-> ns, wheld |-> {}, rheld |-> <<>>, sheld |-> {}, status |-> "ok", log |-> <<>>]

\* faulty variant of RenderStopped: returns without filling the buffer
RenderStoppedNoFill(len, prior) ==
    [out |-> prior, status |-> "ok", log |-> <<>>,
     nodes |-> nodes, position |-> position]

\* faulty variant of RenderStopped: the transport runs on while stopped
RenderStoppedAdvancing(len, prior) ==
    [out |-> [k \in 1..len |-> FrameZero], status |-> "ok", log |-> <<>>,
     nodes |-> nodes, position |-> position + len]

\* the `if !self.playing` arm of Engine::render: fill and return
RenderStopped(len, prior) ==
    [out |-> [k \in 1..len |-> FrameZero], status |-> "ok", log |-> <<>>,
     nodes |-> nodes, position |-> position]

\* the end of Engine::render: advance and clear_buffers on every node, then
\* position; r is what the Sink's render left
RenderPlayingFinish(r, len) ==
    [out |-> r.buf.data, status |-> r.st.status, log |-> r.st.log,
     nodes |-> IF r.st.status = "ok" THEN AdvanceAll(r.st.nodes, len) ELSE r.st.nodes,
     position |-> IF r.st.status = "ok" THEN position + len ELSE position]

\* Engine::render past the playing check: the Sink's render on the host
\* buffer, then the end of the call
RenderPlaying(len, prior) ==
    IF 0 \notin DOMAIN nodes
    THEN [out |-> prior, status |-> "panic", log |-> <<>>,
          nodes |-> nodes, position |-> position]
    ELSE RenderPlayingFinish(NodeRender(RenderState(nodes), position, 0, 0,
                                        [kind |-> "Audio", data |-> prior]), len)

\* what Engine::render does to the buffer, the nodes and the transport
RenderOutcome(len, prior) ==
    IF ~playing THEN RenderStopped(len, prior) ELSE RenderPlaying(len, prior)

\* Engine::render on a host buffer of len frames holding `prior`;
\* last.out is the buffer as the call leaves it
RenderWithin(len, prior, limit) ==
    LET r == RenderOutcome(len, prior) IN
    /\ Alive
    /\ position + len <= limit
    /\ nodes' = r.nodes
    /\ position' = r.position
    /\ last' = [NoOp EXCEPT !.op = "render", !.len = len, !.prior = prior,
                            !.arg = Some(playing), !.out = r.out,
                            !.status = r.status, !.log = r.log]
    /\ UNCHANGED <<config, voice_tracker, registry, resources, node_counter, playing>>

\* the renders of the model stop at MaxPosition
Render(len, prior) == RenderWithin(len, prior, MaxPosition)

\* faulty variant of SeekNode: PolyOsc keeps its voices across a seek
SeekNodeKeepVoices(inst, pos) ==
    IF inst.ctor \in {"chordial.sine", "chordial.envelope", "chordial.trigger",
                     "chordial.polyosc", "chordial.midi_clip"}
    THEN [inst EXCEPT !.pos = pos]
    ELSE inst

\* Node::seek of the instance's node
SeekNode(inst, pos) ==
    CASE inst.ctor \in {"chordial.sine", "chordial.envelope", "chordial.trigger",
                       "chordial.midi_clip"} ->
            [inst EXCEPT !.pos = pos]
      [] inst.ctor = "chordial.polyosc" ->
            [inst EXCEPT !.pos = pos, !.notes.voices = <<>>]
      [] OTHER -> inst

\* the voices the PolyOscs of ns hold, counted
RECURSIVE CountVoices(_, _)
CountVoices(ns, S) ==
    IF S = {} THEN 0
    ELSE LET n == CHOOSE x \in S : TRUE
         IN  Cardinality(DOMAIN ns[n].notes.voices) + CountVoices(ns, S \ {n})

\* Engine::seek; last.ret is the number of voices sounding before the call
Seek(pos) ==
    /\ Alive
    /\ position' = pos
    /\ nodes' = [n \in DOMAIN nodes |-> SeekNode(nodes[n], pos)]
    /\ last' = [NoOp EXCEPT !.op = "seek", !.arg = Some(pos),
                            !.ret = Some(CountVoices(nodes, DOMAIN nodes))]
    /\ UNCHANGED <<config, voice_tracker, registry, resources, node_counter, playing>>

\* Trigger::set_position through the instance's timeline transform
SetTimelinePosition(node, pos) ==
    /\ Alive
    /\ node \in DOMAIN nodes
    /\ nodes[node].ctor = "chordial.trigger"
    /\ nodes[node].tl.position # pos
    /\ nodes' = [nodes EXCEPT ![node].tl.position = pos]
    /\ last' = [NoOp EXCEPT !.op = "set_position", !.arg = Some(<<node, pos>>)]
    /\ UNCHANGED <<config, voice_tracker, registry, resources, node_counter, playing, position>>

\* the MIDI input ports midir lists
MidiPorts == {"keys"}

\* Node::param_updated of the nodes of the model
ParamUpdated(inst, param, value) ==
    CASE inst.ctor = "chordial.sine" -> [inst EXCEPT !.rate = value.val]
      [] inst.ctor = "chordial.gain" -> [inst EXCEPT !.gain = value.val]
      [] inst.ctor = "chordial.control_value" -> [inst EXCEPT !.value = value.val]
      [] inst.ctor = "chordial.midi_split" -> [inst EXCEPT !.keep_channel = value.val]
      [] inst.ctor = "chordial.cli.midi-in" ->
            \* the connection is dropped; a port of that name gets a new one
            \* and a new channel, whose receiver replaces the old
            IF value.val \in MidiPorts
            THEN [inst EXCEPT !.port_name = value.val,
                              !.connection = Some(value.val),
                              !.receiver = Some(<<>>)]
            ELSE [inst EXCEPT !.port_name = value.val, !.connection = None]
      [] OTHER -> inst

\* the kind a node's param_updated destructures its value as; every other
\* kind panics
ParamUpdatedKind(ctor) ==
    CASE ctor \in {"chordial.sine", "chordial.gain", "chordial.control_value"} -> Some("Float")
      [] ctor = "chordial.midi_split" -> Some("Bool")
      [] ctor = "chordial.cli.midi-in" -> Some("String")
      [] ctor = "chordial.source" -> Some("String")
      [] OTHER -> None

\* ParamValue::set succeeds only between values of one kind
SameKind(a, b) == a.kind = b.kind

\* faulty variant of SetParam: the value is stored, the node is not told
SetParamStoreOnly(inst, param, value) ==
    IF param >= Len(inst.params) \/ ~SameKind(inst.params[param + 1], value)
    THEN [ok |-> FALSE, inst |-> inst, calls |-> <<>>]
    ELSE [ok |-> TRUE, inst |-> [inst EXCEPT !.params[param + 1] = value],
          calls |-> <<>>]

\* NodeInstance::set_param; ok is FALSE where the call panics, calls are the
\* invocations of the node's param_updated that returned
SetParam(inst, param, value) ==
    IF /\ ParamUpdatedKind(inst.ctor) # None
       /\ ParamUpdatedKind(inst.ctor) # Some(value.kind)
    THEN [ok |-> FALSE, inst |-> inst, calls |-> <<>>]
    ELSE LET upd == ParamUpdated(inst, param, value) IN
         IF param >= Len(inst.params) \/ ~SameKind(inst.params[param + 1], value)
         THEN [ok |-> FALSE, inst |-> upd, calls |-> <<[param |-> param, value |-> value]>>]
         ELSE [ok |-> TRUE, inst |-> [upd EXCEPT !.params[param + 1] = value],
               calls |-> <<[param |-> param, value |-> value]>>]

\* the host calls set_param on the instance get_node_mut(node) returns
HostSetParam(node, param, value) ==
    /\ Alive
    /\ node \in DOMAIN nodes
    /\ LET r == SetParam(nodes[node], param, value) IN
       /\ nodes' = [nodes EXCEPT ![node] = r.inst]
       /\ last' = [NoOp EXCEPT !.op = "set_param",
                               !.arg = Some([node |-> node, param |-> param, value |-> value]),
                               !.ret = Some(r.calls),
                               !.status = IF r.ok THEN "ok" ELSE "panic"]
    /\ UNCHANGED <<config, voice_tracker, registry, resources, node_counter, playing, position>>

\* ParamValue::Float; v is in Hz for Sine, in dB for Gain and in units of
\* 1 / One for ControlValue
Float(v) == [kind |-> "Float", val |-> v]

\* Display for ParamValue: the typed value a "param" line carries
ParamDisplay(value) ==
    [prefix |-> CASE value.kind = "String" -> "s"
                  [] value.kind = "Float" -> "f"
                  [] value.kind = "Int" -> "i"
                  [] value.kind = "Bool" -> "b",
     text |-> value.val]

\* ParamValue::parse; None where it panics on the prefix
ParamParse(token) ==
    CASE token.prefix = "s" -> Some([kind |-> "String", val |-> token.text])
      [] token.prefix = "f" -> Some([kind |-> "Float", val |-> token.text])
      [] token.prefix = "i" -> Some([kind |-> "Int", val |-> token.text])
      [] token.prefix = "b" -> Some([kind |-> "Bool", val |-> token.text])
      [] OTHER -> None

\* Default for MidiBlock
MidiBlockDefault == [channels |-> [c \in 1..NumChannels |-> <<>>]]

\* MidiBlock::save: one record per non-empty channel, the channel, the
\* count, the notes
MidiBlockSave(block) ==
    LET chans == SelectSeq([c \in 1..NumChannels |-> c - 1],
                           LAMBDA c : block.channels[c + 1] # <<>>)
    IN  [j \in 1..Len(chans) |->
            [channel |-> chans[j],
             count   |-> Len(block.channels[chans[j] + 1]),
             notes   |-> block.channels[chans[j] + 1]]]

\* MidiBlock::load, from the k-th record of the payload on
RECURSIVE MidiBlockLoad(_, _, _)
MidiBlockLoad(block, payload, k) ==
    IF k > Len(payload) THEN block
    ELSE MidiBlockLoad(
            [block EXCEPT !.channels[payload[k].channel + 1] =
                @ \o SubSeq(payload[k].notes, 1, payload[k].count)],
            payload, k + 1)

\* v >> (8 * k)
RECURSIVE ShiftBytes(_, _)
ShiftBytes(v, k) == IF k = 0 THEN v ELSE ShiftBytes(v \div 256, k - 1)

\* u64::to_ne_bytes / usize::to_ne_bytes on a little-endian 64-bit target
ToNeBytes(v) == [k \in 1..8 |-> ShiftBytes(v, k - 1) % 256]

\* u64::from_ne_bytes / usize::from_ne_bytes of the bytes k.. of bytes
RECURSIVE FromNeBytes(_, _)
FromNeBytes(bytes, k) ==
    IF k > Len(bytes) THEN 0 ELSE bytes[k] + 256 * FromNeBytes(bytes, k + 1)

\* the bytes MidiBlock::save writes for the notes k.. of one channel
RECURSIVE SaveNoteBytes(_, _)
SaveNoteBytes(notes, k) ==
    IF k > Len(notes) THEN <<>>
    ELSE ToNeBytes(notes[k].pos) \o ToNeBytes(notes[k].len)
            \o <<notes[k].note, notes[k].vel>> \o SaveNoteBytes(notes, k + 1)

\* MidiBlock::save as bytes, from channel i on
RECURSIVE MidiBlockSaveBytes(_, _)
MidiBlockSaveBytes(block, i) ==
    IF i >= Len(block.channels) THEN <<>>
    ELSE (IF block.channels[i + 1] = <<>> THEN <<>>
          ELSE <<i % 256>> \o ToNeBytes(Len(block.channels[i + 1]))
                  \o SaveNoteBytes(block.channels[i + 1], 1))
         \o MidiBlockSaveBytes(block, i + 1)

\* the loops of MidiBlock::load from the byte at index i on (0-based);
\* `left` notes of `channel` are still to be read; a slice or an index out
\* of range panics
RECURSIVE LoadBytesFrom(_, _, _, _, _)
LoadBytesFrom(block, data, i, channel, left) ==
    IF left > 0
    THEN IF i + 18 > Len(data) THEN [ok |-> FALSE, block |-> block]
         ELSE LoadBytesFrom(
                 [block EXCEPT !.channels[channel + 1] =
                     Append(@, MidiNoteDesc(FromNeBytes(SubSeq(data, i + 1, i + 8), 1),
                                            FromNeBytes(SubSeq(data, i + 9, i + 16), 1),
                                            data[i + 17], data[i + 18]))],
                 data, i + 18, channel, left - 1)
    ELSE IF i >= Len(data) THEN [ok |-> TRUE, block |-> block]
    ELSE IF i + 9 > Len(data) \/ data[i + 1] >= Len(block.channels)
    THEN [ok |-> FALSE, block |-> block]
    ELSE LoadBytesFrom(block, data, i + 9, data[i + 1],
                       FromNeBytes(SubSeq(data, i + 2, i + 9), 1))

\* faulty variant of MidiBlockLoadBytes: the block is not reset first
MidiBlockLoadBytesKeeping(self, data) == LoadBytesFrom(self, data, 0, 0, 0)

\* MidiBlock::load on bytes: *self = Self::default(), then the loops
MidiBlockLoadBytes(self, data) ==
    LoadBytesFrom(MidiBlockDefault, data, 0, 0, 0)

\* ResourceData behind a ResourceHandle::new(data, None, id)
ResourceData(kind, id, data) == [kind |-> kind, id |-> id, data |-> data, path |-> None]

\* the "res" arm of Engine::load for one element; r carries the nodes and
\* resources loaded so far
LoadRes(r, el) ==
    CASE el.storage = "internal" ->
            IF el.kind \notin DOMAIN registry.resource_ctors THEN [r EXCEPT !.ok = FALSE]
            ELSE [r EXCEPT !.resources =
                     [id \in DOMAIN @ \cup {el.id} |->
                         IF id = el.id
                         THEN ResourceData(el.kind, el.id,
                                           MidiBlockLoad(MidiBlockDefault, el.payload, 1))
                         ELSE @[id]]]
      [] el.storage = "external" ->
            \* load_resource_with_id: no extension, no loader for it, or a
            \* loader that returns None all yield None, which load discards
            IF \/ el.ext = None
               \/ el.ext.some \notin DOMAIN registry.resource_loaders
               \/ ~el.found
            THEN r
            ELSE [r EXCEPT !.resources =
                     [id \in DOMAIN @ \cup {el.id} |->
                         IF id = el.id THEN ResourceData("AudioData", el.id, <<>>)
                         ELSE @[id]]]
      [] OTHER -> [r EXCEPT !.ok = FALSE]

\* the param lines of one node record of a project file, from the k-th on
RECURSIVE LoadParams(_, _, _)
LoadParams(r, params, k) ==
    IF k > Len(params) \/ ~r.ok THEN r
    ELSE IF ParamParse(params[k]) = None THEN [r EXCEPT !.ok = FALSE]
    ELSE LoadParams(SetParam(r.inst, k - 1, ParamParse(params[k]).some), params, k + 1)

\* the "node" arm of Engine::load for one record: the constructor, then
\* inputs.clear(), then one input per "in" line, one set_param per "param"
\* line and the link of the "r data <id>" line to the resource of that id
LoadNode(rec, rs) ==
    IF rec.ctor \notin DOMAIN registry.node_ctors THEN [ok |-> FALSE, inst |-> None]
    ELSE
    LET fresh == NewDyn(rec.ctor)
        declared == GetInputs(rec.ctor)
        bad == \/ \E k \in 1..Len(rec.ins) : Len(rec.ins[k]) > 2 /\ k > Len(declared)
               \/ /\ rec.res # None
                  /\ \/ rec.ctor # "chordial.midi_clip"
                     \/ rec.res.some \notin DOMAIN rs
               \/ /\ rec.res # None
                  /\ rec.res.some \in DOMAIN rs
                  /\ rs[rec.res.some].kind # "MidiBlock"
        inputs == [k \in 1..Len(rec.ins) |->
                      [refs |-> rec.ins[k],
                       scratch |-> IF Len(rec.ins[k]) > 2
                                   THEN BufferFromBusKind(declared[k])
                                   ELSE BufferFromBusKind("Control")]]
    IN  IF bad THEN [ok |-> FALSE, inst |-> None]
        ELSE LoadParams([ok |-> TRUE,
                         inst |-> [fresh EXCEPT
                                      !.inputs = inputs,
                                      !.data = IF rec.res = None THEN None
                                               ELSE Some(rs[rec.res.some])]],
                        rec.params, 1)

\* the elements of a project file handled in file order, from the k-th on
RECURSIVE LoadNodes(_, _, _)
LoadNodes(r, els, k) ==
    IF k > Len(els) \/ ~r.ok THEN r
    ELSE IF els[k].el = "res" THEN LoadNodes(LoadRes(r, els[k]), els, k + 1)
    ELSE IF els[k].el # "node" THEN [r EXCEPT !.ok = FALSE]
    ELSE LET ld == LoadNode(els[k], r.resources) IN
         IF ~ld.ok THEN [r EXCEPT !.ok = FALSE]
         ELSE LoadNodes([r EXCEPT !.nodes =
                            [id \in DOMAIN r.nodes \cup {els[k].id} |->
                                IF id = els[k].id THEN ld.inst ELSE r.nodes[id]]],
                        els, k + 1)

\* what Engine::load leaves in the engine, given the file's elements
LoadFile(project) ==
    LoadNodes([ok |-> TRUE, nodes |-> << >>, resources |-> << >>], project, 1)

\* Engine::load of a project file given as its elements
Load(project) ==
    LET r == LoadFile(project) IN
    /\ Alive
    /\ nodes' = r.nodes
    /\ resources' = r.resources
    /\ node_counter' = IF r.ok THEN Probe(0, DOMAIN r.nodes) ELSE 0
    /\ last' = [NoOp EXCEPT !.op = "load", !.arg = Some(project),
                            !.status = IF r.ok THEN "ok" ELSE "panic"]
    /\ UNCHANGED <<config, voice_tracker, registry, playing, position>>

\* ---------------------------------------------------------- project files
\* an element of a project file; el is the first word of its first line
FileEl(el, id) ==
    [el |-> el, id |-> id, ctor |-> "", ins |-> <<>>, params |-> <<>>, res |-> None,
     kind |-> "", storage |-> "", payload |-> <<>>, ext |-> None, found |-> FALSE]

\* "node <id> <ctor>" with its "in" and "param" lines
Rec(id, ctor, ins, params) ==
    [FileEl("node", id) EXCEPT
        !.ctor = ctor, !.ins = ins,
        !.params = [k \in 1..Len(params) |-> ParamDisplay(params[k])]]

\* a MidiClip record whose "r data <id>" line names the resource resid
RecClip(id, resid) ==
    [FileEl("node", id) EXCEPT !.ctor = "chordial.midi_clip", !.res = Some(resid)]

\* "res <id> <kind> internal <size>" followed by the payload
ResInternal(id, kind, payload) ==
    [FileEl("res", id) EXCEPT !.kind = kind, !.storage = "internal", !.payload = payload]

\* "res <id> <kind> external <path>"; ext is the path's extension, found
\* whether the loader for it produces a resource from the file
ResExternal(id, kind, ext, found) ==
    [FileEl("res", id) EXCEPT !.kind = kind, !.storage = "external",
                              !.ext = ext, !.found = found]

\* the ids of S in ascending order, as the iteration of a BTreeMap yields them
RECURSIVE SortedIds(_)
SortedIds(S) ==
    IF S = {} THEN <<>>
    ELSE LET lo == CHOOSE x \in S : \A y \in S : x <= y
         IN  <<lo>> \o SortedIds(S \ {lo})

\* the element Engine::save writes for one resource; every resource of an
\* engine was made by add_resource_with_id with no path, so is internal
SaveResource(res) ==
    IF res.path # None THEN ResExternal(res.id, res.kind, res.path, TRUE)
    ELSE ResInternal(res.id, res.kind, MidiBlockSave(res.data))

\* the record Engine::save writes for one node: its "in" lines, its "param"
\* lines and the "r data <id>" line of a linked resource
SaveNode(id, inst) ==
    [FileEl("node", id) EXCEPT
        !.ctor = inst.ctor,
        !.ins = [k \in 1..Len(inst.inputs) |-> inst.inputs[k].refs],
        !.params = [k \in 1..Len(inst.params) |-> ParamDisplay(inst.params[k])],
        !.res = IF inst.data = None THEN None ELSE Some(inst.data.some.id)]

\* Engine::save: the resources, then the nodes in id order
Save(ns, rs) ==
    LET rids == SortedIds(DOMAIN rs)
        nids == SortedIds(DOMAIN ns)
    IN  [k \in 1..Len(rids) |-> SaveResource(rs[rids[k]])]
        \o [k \in 1..Len(nids) |-> SaveNode(nids[k], ns[nids[k]])]

\* Engine::save of the engine followed by Engine::load of the file into an
\* engine fresh from Engine::new, which then takes the place of the first
Reload ==
    LET r == LoadFile(Save(nodes, resources)) IN
    /\ Alive
    /\ nodes' = r.nodes
    /\ resources' = r.resources
    /\ node_counter' = IF r.ok THEN Probe(0, DOMAIN r.nodes) ELSE 0
    /\ playing' = FALSE
    /\ position' = 0
    /\ config' = [config EXCEPT !.bpm = 120]
    /\ UNCHANGED voice_tracker
    /\ last' = [NoOp EXCEPT !.op = "reload",
                            !.status = IF r.ok THEN "ok" ELSE "panic"]
    /\ UNCHANGED registry

\* only the Sink, as Engine::save writes a new engine
ProjectEmpty == << Rec(0, "chordial.sink", << <<>> >>, <<>>) >>

\* a Sink record without its "in" line
ProjectBare == << Rec(0, "chordial.sink", <<>>, <<>>) >>

\* ControlValue -> Sink: a Control output on an Audio input
ProjectControlToSink ==
    << Rec(0, "chordial.sink", << <<OutputRef(1, 0)>> >>, <<>>),
       Rec(1, "chordial.control_value", <<>>, <<Float(2)>>) >>

\* a top-level line that starts neither a resource nor a node
ProjectBadElement == << FileEl("nod", 0) >> \o ProjectEmpty

\* a resource line whose storage tag is neither internal nor external
ProjectBadStorage ==
    << [ResInternal(0, "MidiBlock", <<>>) EXCEPT !.storage = "intern"] >> \o ProjectEmpty

\* an external resource whose path has no extension
ProjectExternalNoExt == << ResExternal(0, "AudioData", None, FALSE) >> \o ProjectEmpty

\* an external resource whose extension no loader is registered for
ProjectExternalNoLoader ==
    << ResExternal(0, "AudioData", Some("flac"), TRUE) >> \o ProjectEmpty

\* Sine -> Sink
ProjectSine ==
    << Rec(0, "chordial.sink", << <<OutputRef(1, 0)>> >>, <<>>),
       Rec(1, "chordial.sine", <<>>, <<Float(2)>>) >>

\* Sine -> Gain -> Sink and Sine -> Sink: one output pulled by two consumers
ProjectShare ==
    << Rec(0, "chordial.sink", << <<OutputRef(2, 0), OutputRef(1, 0)>> >>, <<>>),
       Rec(1, "chordial.sine", <<>>, <<Float(2)>>),
       Rec(2, "chordial.gain", << <<OutputRef(1, 0)>> >>, <<Float(10)>>) >>

\* two ControlValues (0.25 and 0.5) summed into Amplify's amp input, and a
\* Sine nothing is connected to
ProjectFanIn ==
    << Rec(0, "chordial.sink", << <<OutputRef(1, 0)>> >>, <<>>),
       Rec(1, "chordial.amplify", << <<OutputRef(2, 0)>>,
                                     <<OutputRef(3, 0), OutputRef(4, 0)>> >>, <<>>),
       Rec(2, "chordial.sine", <<>>, <<Float(2)>>),
       Rec(3, "chordial.control_value", <<>>, <<Float(1)>>),
       Rec(4, "chordial.control_value", <<>>, <<Float(2)>>),
       Rec(5, "chordial.sine", <<>>, <<>>) >>

\* a Trigger driving Amplify's amp input
ProjectTrigger ==
    << Rec(0, "chordial.sink", << <<OutputRef(1, 0)>> >>, <<>>),
       Rec(1, "chordial.amplify", << <<OutputRef(2, 0)>>, <<OutputRef(3, 0)>> >>, <<>>),
       Rec(2, "chordial.sine", <<>>, <<Float(2)>>),
       Rec(3, "chordial.trigger", <<>>, <<>>) >>

\* an Envelope whose five inputs have five producers
ProjectEnvelope ==
    << Rec(0, "chordial.sink", << <<OutputRef(1, 0)>> >>, <<>>),
       Rec(1, "chordial.amplify", << <<OutputRef(2, 0)>>, <<OutputRef(3, 0)>> >>, <<>>),
       Rec(2, "chordial.sine", <<>>, <<Float(2)>>),
       Rec(3, "chordial.envelope",
           << <<OutputRef(4, 0)>>, <<OutputRef(5, 0)>>, <<OutputRef(6, 0)>>,
              <<OutputRef(7, 0)>>, <<OutputRef(8, 0)>> >>, <<>>),
       Rec(4, "chordial.control_value", <<>>, <<Float(0)>>),
       Rec(5, "chordial.control_value", <<>>, <<Float(0)>>),
       Rec(6, "chordial.control_value", <<>>, <<Float(2)>>),
       Rec(7, "chordial.control_value", <<>>, <<Float(1)>>),
       Rec(8, "chordial.control_value", <<>>, <<Float(4)>>) >>

\* one ControlValue feeding both atk and dec of an Envelope
ProjectEnvelopeShared ==
    << Rec(0, "chordial.sink", << <<OutputRef(1, 0)>> >>, <<>>),
       Rec(1, "chordial.amplify", << <<OutputRef(2, 0)>>, <<OutputRef(3, 0)>> >>, <<>>),
       Rec(2, "chordial.sine", <<>>, <<Float(2)>>),
       Rec(3, "chordial.envelope",
           << <<OutputRef(4, 0)>>, <<OutputRef(4, 0)>>, <<OutputRef(5, 0)>>,
              <<OutputRef(6, 0)>>, <<OutputRef(7, 0)>> >>, <<>>),
       Rec(4, "chordial.control_value", <<>>, <<Float(0)>>),
       Rec(5, "chordial.control_value", <<>>, <<Float(2)>>),
       Rec(6, "chordial.control_value", <<>>, <<Float(1)>>),
       Rec(7, "chordial.control_value", <<>>, <<Float(4)>>) >>

\* a file without a node 0
ProjectNoSink == << Rec(1, "chordial.sine", <<>>, <<Float(2)>>) >>

\* a file naming a constructor that is not registered
ProjectUnknown == << Rec(0, "chordial.sink", << <<>> >>, <<>>), Rec(1, "nonexistent", <<>>, <<>>) >>

\* Sine -> Amplify -> Sink with a Sine, an Audio output, on the Control input amp
ProjectAmpAudio ==
    << Rec(0, "chordial.sink", << <<OutputRef(1, 0)>> >>, <<>>),
       Rec(1, "chordial.amplify", << <<OutputRef(2, 0)>>, <<OutputRef(3, 0)>> >>, <<>>),
       Rec(2, "chordial.sine", <<>>, <<Float(2)>>),
       Rec(3, "chordial.sine", <<>>, <<Float(2)>>) >>

\* the same with two Sines on amp: fan-in of a kind the input does not take
ProjectAmpAudioFanIn ==
    << Rec(0, "chordial.sink", << <<OutputRef(1, 0)>> >>, <<>>),
       Rec(1, "chordial.amplify",
           << <<OutputRef(2, 0)>>, <<OutputRef(2, 0), OutputRef(3, 0)>> >>, <<>>),
       Rec(2, "chordial.sine", <<>>, <<Float(2)>>),
       Rec(3, "chordial.sine", <<>>, <<Float(2)>>) >>

\* the same with a ControlValue and a Sine on amp: fan-in of two kinds
ProjectAmpMixedFanIn ==
    << Rec(0, "chordial.sink", << <<OutputRef(1, 0)>> >>, <<>>),
       Rec(1, "chordial.amplify",
           << <<OutputRef(2, 0)>>, <<OutputRef(3, 0), OutputRef(2, 0)>> >>, <<>>),
       Rec(2, "chordial.sine", <<>>, <<Float(2)>>),
       Rec(3, "chordial.control_value", <<>>, <<Float(2)>>) >>

\* the CLI's MIDI input on port "keys" -> PolyOsc -> Sink
ProjectMidiIn ==
    << Rec(0, "chordial.sink", << <<OutputRef(1, 0)>> >>, <<>>),
       Rec(1, "chordial.polyosc", << <<OutputRef(2, 0)>> >>, <<>>),
       Rec(2, "chordial.cli.midi-in", <<>>, <<[kind |-> "String", val |-> "keys"]>>) >>

\* scenario S3: Source -> Amplify.in, Trigger -> Envelope.trig,
\* Envelope -> Amplify.amp, with A = D = R = 0.25 s (two frames) and S = 0.5
ProjectS3 ==
    << Rec(0, "chordial.sink", << <<OutputRef(1, 0)>> >>, <<>>),
       Rec(1, "chordial.amplify", << <<OutputRef(2, 0)>>, <<OutputRef(3, 0)>> >>, <<>>),
       Rec(2, "chordial.source", <<>>, <<>>),
       Rec(3, "chordial.envelope",
           << <<OutputRef(4, 0)>>, <<OutputRef(5, 0)>>, <<OutputRef(6, 0)>>,
              <<OutputRef(7, 0)>>, <<OutputRef(8, 0)>> >>, <<>>),
       Rec(4, "chordial.control_value", <<>>, <<Float(1)>>),
       Rec(5, "chordial.control_value", <<>>, <<Float(1)>>),
       Rec(6, "chordial.control_value", <<>>, <<Float(2)>>),
       Rec(7, "chordial.control_value", <<>>, <<Float(1)>>),
       Rec(8, "chordial.trigger", <<>>, <<>>) >>

\* two Gains feeding each other
ProjectCycle ==
    << Rec(0, "chordial.sink", << <<OutputRef(1, 0)>> >>, <<>>),
       Rec(1, "chordial.gain", << <<OutputRef(2, 0)>> >>, <<Float(0)>>),
       Rec(2, "chordial.gain", << <<OutputRef(1, 0)>> >>, <<Float(0)>>) >>

\* two MidiClips (A2 on channel 0, A4 on channel 1, two frames long) merged
\* into a MidiSplit whose outputs 0 and 1 drive one PolyOsc each
ProjectMidiSplit ==
    << ResInternal(0, "MidiBlock", MidiBlockSave(MidiBlock(0, <<MidiNoteDesc(0, 48, 45, 127)>>))),
       ResInternal(1, "MidiBlock", MidiBlockSave(MidiBlock(1, <<MidiNoteDesc(0, 48, 69, 127)>>))),
       Rec(0, "chordial.sink", << <<OutputRef(1, 0), OutputRef(2, 0)>> >>, <<>>),
       Rec(1, "chordial.polyosc", << <<OutputRef(3, 0)>> >>, <<>>),
       Rec(2, "chordial.polyosc", << <<OutputRef(3, 1)>> >>, <<>>),
       Rec(3, "chordial.midi_split", << <<OutputRef(4, 0), OutputRef(5, 0)>> >>, <<>>),
       RecClip(4, 0),
       RecClip(5, 1) >>

\* a MidiClip on the block `notes` (channel 0) driving a PolyOsc
ProjectClip(notes) ==
    << ResInternal(0, "MidiBlock", MidiBlockSave(MidiBlock(0, notes))),
       Rec(0, "chordial.sink", << <<OutputRef(1, 0)>> >>, <<>>),
       Rec(1, "chordial.polyosc", << <<OutputRef(2, 0)>> >>, <<>>),
       RecClip(2, 0) >>

\* ProjectEnvelope with a Trigger on the Envelope's trig input
ProjectEnvelopeTrigger ==
    << Rec(0, "chordial.sink", << <<OutputRef(1, 0)>> >>, <<>>),
       Rec(1, "chordial.amplify", << <<OutputRef(2, 0)>>, <<OutputRef(3, 0)>> >>, <<>>),
       Rec(2, "chordial.sine", <<>>, <<Float(2)>>),
       Rec(3, "chordial.envelope",
           << <<OutputRef(4, 0)>>, <<OutputRef(5, 0)>>, <<OutputRef(6, 0)>>,
              <<OutputRef(7, 0)>>, <<OutputRef(8, 0)>> >>, <<>>),
       Rec(4, "chordial.control_value", <<>>, <<Float(1)>>),
       Rec(5, "chordial.control_value", <<>>, <<Float(1)>>),
       Rec(6, "chordial.control_value", <<>>, <<Float(2)>>),
       Rec(7, "chordial.control_value", <<>>, <<Float(1)>>),
       Rec(8, "chordial.trigger", <<>>, <<>>) >>

\* a file whose Sink has the line "in 5.0" and that holds no node 5
ProjectDangling ==
    << Rec(0, "chordial.sink", << <<OutputRef(5, 0)>> >>, <<>>),
       Rec(1, "chordial.sine", <<>>, <<Float(2)>>) >>

\* a file whose Sink has the line "in 1.1": the Sine 1 has one output
ProjectBadOutput ==
    << Rec(0, "chordial.sink", << <<OutputRef(1, 1)>> >>, <<>>),
       Rec(1, "chordial.sine", <<>>, <<Float(2)>>) >>

Projects ==
    {ProjectEmpty, ProjectSine, ProjectShare, ProjectFanIn, ProjectTrigger,
     ProjectEnvelope, ProjectEnvelopeShared, ProjectNoSink, ProjectUnknown,
     ProjectCycle, ProjectMidiSplit, ProjectControlToSink, ProjectAmpAudio,
     ProjectAmpAudioFanIn, ProjectAmpMixedFanIn}

\* ------------------------------------------------------ the specifications
CreateNames == {"chordial.gain", "nonexistent"}

PriorContents(len) ==
    {[k \in 1..len |-> FrameZero], [k \in 1..len |-> <<One, One>>]}

TimelinePositions == {0, 24}

\* the ids the project files use
NodeIds == 0..8

\* where the host seeks to
SeekPositions == {0, 2}

\* the nodes the host deletes between renders
DeleteIds == {0, 1}

\* the audio callback and the transport, on loaded projects
Next ==
    \/ \E project \in Projects : Load(project)
    \/ \E b \in BOOLEAN : SetPlaying(b)
    \/ \E len \in 0..MaxBufLen : \E prior \in PriorContents(len) : Render(len, prior)
    \/ \E node \in NodeIds, pos \in TimelinePositions : SetTimelinePosition(node, pos)
    \/ \E node \in DeleteIds : DeleteNode(node)
    \/ \E pos \in SeekPositions : Seek(pos)
    \/ Reload

Spec == Init /\ [][Next]_vars

\* the nodes whose parameters the host assigns
HostParamNodes == {0, 1}

\* the values the host assigns to parameters
HostParamValues == {Float(2), [kind |-> "Bool", val |-> TRUE]}

\* the files loaded while editing the graph
GraphProjects ==
    {ProjectEmpty, ProjectShare, ProjectNoSink, ProjectBare, ProjectControlToSink,
     ProjectUnknown, ProjectBadElement, ProjectBadStorage, ProjectExternalNoExt,
     ProjectExternalNoLoader}

\* graph editing
NextGraph ==
    \/ \E name \in CreateNames : CreateNode(name)
    \/ \E node \in 0..MaxNodeId : DeleteNode(node)
    \/ \E node \in 0..MaxNodeId, input \in 0..1, src \in 0..MaxNodeId :
          Connect(node, input, OutputRef(src, 0))
    \/ \E project \in GraphProjects : Load(project)
    \/ \E node \in HostParamNodes, value \in HostParamValues : HostSetParam(node, 0, value)

SpecGraph == Init /\ [][NextGraph]_vars

\* the names the host registers factories under, and its factories
HostNodeNames == {"chordial.sine", "host.node", "host.other"}

HostResourceKinds == {"MidiBlock", "HostData", "Midi Block"}

HostExtensions == {<<"wav">>, <<"flac">>, <<"flac", "wav">>}

HostFactories == {"host.a", "host.b"}

\* the host's registrations on a new engine
NextRegistry ==
    \/ \E name \in HostNodeNames, ctor \in HostFactories : RegisterNode(name, ctor)
    \/ \E kind \in HostResourceKinds, ctor \in HostFactories : RegisterResource(kind, ctor)
    \/ \E exts \in HostExtensions, loader \in HostFactories :
          RegisterResourceLoader(exts, loader)

SpecRegistry == Init /\ [][NextRegistry]_vars

\* what arrives on the MIDI port
PortMessages ==
    {MidiMessage("NoteOn", 0, 69, 127), MidiMessage("NoteOff", 0, 69, 0)}

\* the port names the CLI's user gives the MIDI input
PortNames == {"keys", "none"}

\* the CLI: it registers its MIDI input, loads the project and plays, the
\* audio callback renders, the MIDI callback sends
NextMidiIn ==
    \/ RegisterNode("chordial.cli.midi-in", "cli")
    \/ Load(ProjectMidiIn)
    \/ \E b \in BOOLEAN : SetPlaying(b)
    \/ \E len \in 0..MaxBufLen : Render(len, [k \in 1..len |-> FrameZero])
    \/ \E msg \in PortMessages : MidiCallback(2, msg)
    \/ \E name \in PortNames : HostSetParam(2, 0, [kind |-> "String", val |-> name])

SpecMidiIn == Init /\ [][NextMidiIn]_vars

\* where the Trigger of scenario S3 is put
S3Positions == {0, 24, 48}

\* scenario S3: the host registers the Source, loads the project, places the
\* Trigger, starts playback and renders buffer after buffer
NextS3 ==
    \/ RegisterNode("chordial.source", "host")
    \/ position = 0 /\ Load(ProjectS3)
    \/ \E pos \in S3Positions : position = 0 /\ SetTimelinePosition(8, pos)
    \/ SetPlaying(TRUE)
    \/ \E len \in 0..MaxBufLen :
          RenderWithin(len, [k \in 1..len |-> FrameZero], ScenarioFrames)

SpecS3 == Init /\ [][NextS3]_vars

\* the blocks the clip plays: a note of two frames, a note that starts and
\* ends inside one frame, a note of length 0, a note ending inside a frame,
\* and two notes of which the second starts where the first ends
ClipBlocks ==
    {<<MidiNoteDesc(0, 48, 69, 127)>>,
     <<MidiNoteDesc(6, 6, 69, 127)>>,
     <<MidiNoteDesc(24, 0, 69, 127)>>,
     <<MidiNoteDesc(0, 12, 69, 127)>>,
     <<MidiNoteDesc(0, 24, 69, 127), MidiNoteDesc(24, 48, 57, 127)>>}

\* a clip is loaded and played from position 0, buffer after buffer
NextClip ==
    \/ \E notes \in ClipBlocks : position = 0 /\ Load(ProjectClip(notes))
    \/ SetPlaying(TRUE)
    \/ \E len \in 0..MaxBufLen :
          RenderWithin(len, [k \in 1..len |-> FrameZero], ScenarioFrames)

SpecClip == Init /\ [][NextClip]_vars

\* the sample rates of the engines whose timeline nodes are played: at 8 Hz a
\* frame is 24 timeline units, at 576 Hz a timeline unit is 3 frames
SkipSampleRates == {8, 576}

\* Engine::new(sample_rate) for one of these rates
InitSkip ==
    /\ registry = [node_ctors       |-> [name \in NodeCtors |-> Builtin],
                   resource_ctors   |-> [kind \in ResourceKinds |-> Builtin],
                   resource_loaders |-> [ext \in ResourceLoaderExts |-> Builtin]]
    /\ nodes = (0 :> NewDyn("chordial.sink"))
    /\ node_counter = 0
    /\ resources = << >>
    /\ playing = FALSE
    /\ position = 0
    /\ \E sample_rate \in SkipSampleRates :
           config = [sample_rate |-> sample_rate, bpm |-> 120]
    /\ voice_tracker = NoTracker
    /\ last = NoOp

\* the blocks of the clip: a note ending inside a frame (8 Hz), a note of
\* one unit (three frames at 576 Hz), a note of two frames (8 Hz)
SkipBlocks ==
    {<<MidiNoteDesc(0, 12, 69, 127)>>,
     <<MidiNoteDesc(0, 1, 69, 127)>>,
     <<MidiNoteDesc(0, 48, 69, 127)>>}

\* where the Trigger is put
SkipPositions == {0, 1, 24}

\* a MidiClip or a Trigger is loaded, placed and played from position 0
NextSkip ==
    \/ \E notes \in SkipBlocks : position = 0 /\ Load(ProjectClip(notes))
    \/ position = 0 /\ Load(ProjectTrigger)
    \/ \E pos \in SkipPositions : position = 0 /\ SetTimelinePosition(3, pos)
    \/ SetPlaying(TRUE)
    \/ \E len \in 0..MaxBufLen :
          RenderWithin(len, [k \in 1..len |-> FrameZero], ScenarioFrames)

SpecSkip == InitSkip /\ [][NextSkip]_vars

\* ------------------------------------------------------ the voice trackers
\* a host that owns a MonoVoiceTracker or a PolyVoiceTracker, has assigned
\* its public fields, and drives it
InitTracker ==
    /\ registry = [node_ctors       |-> [name \in NodeCtors |-> Builtin],
                   resource_ctors   |-> [kind \in ResourceKinds |-> Builtin],
                   resource_loaders |-> [ext \in ResourceLoaderExts |-> Builtin]]
    /\ nodes = (0 :> NewDyn("chordial.sink"))
    /\ node_counter = 0
    /\ resources = << >>
    /\ playing = FALSE
    /\ position = 0
    /\ config = NewConfig
    /\ \E release_length \in 0..MaxRelease, polyphony \in 0..MaxPolyphony :
           \/ voice_tracker =
                 [NoTracker EXCEPT
                     !.mono = Some([MonoVoiceTrackerNew EXCEPT
                                       !.release_length = release_length])]
           \/ voice_tracker =
                 [NoTracker EXCEPT
                     !.poly = Some([PolyVoiceTrackerNew EXCEPT
                                       !.release_length = release_length,
                                       !.polyphony = polyphony])]
    /\ last = NoOp

\* the messages the mono tracker is sent
MonoMessages ==
    {MidiMessage("NoteOn", 0, 69, 127), MidiMessage("NoteOn", 0, 69, 0),
     MidiMessage("NoteOn", 0, 57, 100), MidiMessage("NoteOn", 1, 69, 127),
     MidiMessage("NoteOff", 0, 69, 0), MidiMessage("NoteOff", 0, 57, 0),
     MidiMessage("NoteOff", 1, 69, 0), MidiMessage("CtrlChange", 0, 69, 127)}

\* the messages the poly tracker is sent
PolyMessages ==
    {MidiMessage("NoteOn", 0, 69, 127), MidiMessage("NoteOn", 0, 69, 0),
     MidiMessage("NoteOn", 0, 57, 100), MidiMessage("NoteOff", 0, 69, 0),
     MidiMessage("NoteOff", 0, 57, 0), MidiMessage("CtrlChange", 0, 69, 127)}

\* the chains of the frames of a buffer a render loop runs over
DriveChains ==
    {<<>>, <<MidiMessage("NoteOn", 0, 69, 127)>>, <<MidiMessage("NoteOff", 0, 69, 0)>>}

DriveBuffers == UNION {[1..n -> DriveChains] : n \in 1..MaxDrive}

\* last.ret is the tracker as it was before the operation
TrackerOp(op, arg, len, status) ==
    [NoOp EXCEPT !.op = op, !.arg = Some(arg), !.len = len, !.status = status,
                 !.ret = IF voice_tracker.mono # None THEN voice_tracker.mono
                         ELSE voice_tracker.poly]

\* tracker.apply_midi_message(msg, frame) on the mono tracker
MonoApply(msg) ==
    /\ Alive
    /\ voice_tracker.mono # None
    /\ voice_tracker' =
           [voice_tracker EXCEPT
               !.mono = Some(MonoApplyMidiMessage(@.some, msg, voice_tracker.frame))]
    /\ last' = TrackerOp("mono.apply_midi_message", msg, voice_tracker.frame,
                       IF FromU8Panics(msg) THEN "panic" ELSE "ok")
    /\ UNCHANGED <<registry, nodes, node_counter, resources, playing, position, config>>

\* tracker.apply_midi_message(msg, frame) on the poly tracker
PolyApply(msg) ==
    /\ Alive
    /\ voice_tracker.poly # None
    /\ voice_tracker' =
           [voice_tracker EXCEPT
               !.poly = Some(PolyApplyMidiMessage(@.some, msg, voice_tracker.frame))]
    /\ last' = TrackerOp("poly.apply_midi_message", msg, voice_tracker.frame,
                       IF FromU8Panics(msg) THEN "panic" ELSE "ok")
    /\ UNCHANGED <<registry, nodes, node_counter, resources, playing, position, config>>

\* the host goes on to the next frame of its buffer
NextFrame ==
    /\ Alive
    /\ voice_tracker # NoTracker
    /\ voice_tracker.frame + 1 < MaxDrive
    /\ voice_tracker' = [voice_tracker EXCEPT !.frame = @ + 1]
    /\ last' = TrackerOp("next_frame", voice_tracker.frame + 1, 0, "ok")
    /\ UNCHANGED <<registry, nodes, node_counter, resources, playing, position, config>>

\* a build with overflow checks panics where a subtraction underflows
PurgeStatus(voices, checks) ==
    IF checks /\ \E v \in voices : SubtractionUnderflows(v) THEN "panic" ELSE "ok"

\* tracker.advance(samples) at the end of a buffer of `samples` frames, on
\* the mono tracker
MonoAdvanceBuffer(samples, checks) ==
    LET t == voice_tracker.mono.some
        stepped == {[v EXCEPT !.progress = @ + samples] : v \in MonoVoices(t)}
        status == PurgeStatus(stepped, checks)
    IN  /\ Alive
        /\ voice_tracker.mono # None
        /\ samples > voice_tracker.frame
        /\ \A v \in MonoVoices(t) : v.progress + samples <= MaxProgress
        /\ voice_tracker' =
               IF status = "ok"
               THEN [voice_tracker EXCEPT !.mono = Some(MonoAdvance(t, samples)),
                                          !.frame = 0]
               ELSE voice_tracker
        /\ last' = TrackerOp("mono.advance", samples, samples, status)
        /\ UNCHANGED <<registry, nodes, node_counter, resources, playing, position, config>>

\* tracker.advance(samples) at the end of a buffer, on the poly tracker
PolyAdvanceBuffer(samples, checks) ==
    LET t == voice_tracker.poly.some
        stepped == {[v EXCEPT !.progress = @ + samples] : v \in PolyVoices(t)}
        status == PurgeStatus(stepped, checks)
    IN  /\ Alive
        /\ voice_tracker.poly # None
        /\ samples > voice_tracker.frame
        /\ \A v \in PolyVoices(t) : v.progress + samples <= MaxProgress
        /\ voice_tracker' =
               IF status = "ok"
               THEN [voice_tracker EXCEPT !.poly = Some(PolyAdvance(t, samples)),
                                          !.frame = 0]
               ELSE voice_tracker
        /\ last' = TrackerOp("poly.advance", samples, samples, status)
        /\ UNCHANGED <<registry, nodes, node_counter, resources, playing, position, config>>

NextTracker ==
    \/ \E msg \in MonoMessages : MonoApply(msg)
    \/ \E msg \in PolyMessages : PolyApply(msg)
    \/ NextFrame
    \/ \E samples \in 1..MaxDrive, checks \in BOOLEAN : MonoAdvanceBuffer(samples, checks)
    \/ \E samples \in 1..MaxDrive, checks \in BOOLEAN : PolyAdvanceBuffer(samples, checks)

SpecTracker == InitTracker /\ [][NextTracker]_vars

\* the loop of Osc::render on the host's mono tracker over the buffer
\* `midi`, then purge_dead_voices; checks: the build has overflow checks
DriveOsc(midi, checks) ==
    LET t == voice_tracker.mono.some
        r == OscFrames(t, midi, 0)
        status == PurgeStatus(MonoVoices(r), checks)
    IN  /\ Alive
        /\ voice_tracker.mono # None
        /\ \A v \in MonoVoices(t) : v.progress + Len(midi) <= MaxProgress
        /\ voice_tracker' =
               IF status = "ok"
               THEN [voice_tracker EXCEPT !.mono = Some(MonoPurgeDeadVoices(r))]
               ELSE voice_tracker
        /\ last' = TrackerOp("osc.render", midi, Len(midi), status)
        /\ UNCHANGED <<registry, nodes, node_counter, resources, playing, position, config>>

\* the loop of PolyOsc::render on the host's poly tracker, then
\* purge_dead_voices
DrivePolyOsc(midi, checks) ==
    LET t == voice_tracker.poly.some
        r == PolyOscFrames(t, [k \in 1..Len(midi) |-> FrameZero], midi, 0).tracker
        status == PurgeStatus(PolyVoices(r), checks)
    IN  /\ Alive
        /\ voice_tracker.poly # None
        /\ \A v \in PolyVoices(t) : v.progress + Len(midi) <= MaxProgress
        /\ voice_tracker' =
               IF status = "ok"
               THEN [voice_tracker EXCEPT !.poly = Some(PurgeDeadVoices(r))]
               ELSE voice_tracker
        /\ last' = TrackerOp("polyosc.render", midi, Len(midi), status)
        /\ UNCHANGED <<registry, nodes, node_counter, resources, playing, position, config>>

\* the loop of Sampler::render on the host's poly tracker; the Sampler does
\* not purge
DriveSampler(midi) ==
    LET t == voice_tracker.poly.some
        r == PolyOscFrames(t, [k \in 1..Len(midi) |-> FrameZero], midi, 0).tracker
    IN  /\ Alive
        /\ voice_tracker.poly # None
        /\ \A v \in PolyVoices(t) : v.progress + Len(midi) <= MaxProgress
        /\ voice_tracker' = [voice_tracker EXCEPT !.poly = Some(r)]
        /\ last' = TrackerOp("sampler.render", midi, Len(midi), "ok")
        /\ UNCHANGED <<registry, nodes, node_counter, resources, playing, position, config>>

\* a tracker driven by a node's render, buffer after buffer
NextDrive ==
    \/ \E midi \in DriveBuffers, checks \in BOOLEAN : DriveOsc(midi, checks)
    \/ \E midi \in DriveBuffers, checks \in BOOLEAN : DrivePolyOsc(midi, checks)
    \/ \E midi \in DriveBuffers : DriveSampler(midi)

SpecDrive == InitTracker /\ [][NextDrive]_vars

\* the values the host sets the trig ControlValue to: 0, 0.25, 0.5 and 1
TrigValues == {Float(0), Float(1), Float(2), Float(4)}

\* where the Trigger on the Envelope's trig input is put
EnvelopeTriggerPositions == {0, 24}

\* an Envelope whose trig input the host gates by hand, or a Trigger
\* pulses, played from position 0
NextEnvelope ==
    \/ position = 0 /\ Load(ProjectEnvelope)
    \/ position = 0 /\ Load(ProjectEnvelopeTrigger)
    \/ \E value \in TrigValues :
          8 \in DOMAIN nodes /\ nodes[8].ctor = "chordial.control_value"
             /\ HostSetParam(8, 0, value)
    \/ \E pos \in EnvelopeTriggerPositions : position = 0 /\ SetTimelinePosition(8, pos)
    \/ SetPlaying(TRUE)
    \/ \E len \in 0..MaxBufLen :
          RenderWithin(len, [k \in 1..len |-> FrameZero], ScenarioFrames)

SpecEnvelope == Init /\ [][NextEnvelope]_vars

\* the atk, dec and rel times (0, 0.25 and 0.5 s) and the sus levels
\* (0, 0.5 and 1) the gain functions are applied to
AdsrTimes == {0, 1, 2}
SusLevels == {0, 2, 4}

\* the four control values of an Envelope
InitGain ==
    /\ registry = [node_ctors       |-> [name \in NodeCtors |-> Builtin],
                   resource_ctors   |-> [kind \in ResourceKinds |-> Builtin],
                   resource_loaders |-> [ext \in ResourceLoaderExts |-> Builtin]]
    /\ nodes = (0 :> NewDyn("chordial.sink"))
    /\ node_counter = 0
    /\ resources = << >>
    /\ playing = FALSE
    /\ position = 0
    /\ config = NewConfig
    /\ voice_tracker = NoTracker
    /\ \E atk \in AdsrTimes, dec \in AdsrTimes, sus \in SusLevels, rel \in AdsrTimes :
           last = [NoOp EXCEPT !.op = "adsr",
                               !.arg = [atk |-> atk, dec |-> dec, sus |-> sus, rel |-> rel]]

\* Envelope::get_gain, tf frames after start_frame
ApplyGetGain(tf) ==
    /\ last.op = "adsr"
    /\ last' = [last EXCEPT !.op = "get_gain",
                            !.len = tf,
                            !.ret = GetGain(last.arg.atk, last.arg.dec, last.arg.sus, tf)]
    /\ UNCHANGED <<config, voice_tracker, registry, nodes, node_counter, resources, playing, position>>

\* Envelope::get_gain_released, released tr frames after start_frame and
\* evaluated tc frames after end_frame
ApplyGetGainReleased(tr, tc) ==
    /\ last.op = "adsr"
    /\ last' = [last EXCEPT !.op = "get_gain_released",
                            !.prior = <<tr>>,
                            !.len = tc,
                            !.ret = GetGainReleased(last.arg.atk, last.arg.dec, last.arg.sus,
                                                    last.arg.rel, tr, tc)]
    /\ UNCHANGED <<config, voice_tracker, registry, nodes, node_counter, resources, playing, position>>

NextGain ==
    \/ \E tf \in 0..MaxGainFrames : ApplyGetGain(tf)
    \/ \E tr \in 0..MaxGainFrames, tc \in 0..MaxGainFrames : ApplyGetGainReleased(tr, tc)

SpecGain == InitGain /\ [][NextGain]_vars

\* the chains a frame of the MidiSplit's input holds: notes and a controller
\* on channels 0 and 3, a program change (0xC3), a clock byte (0xF8)
SplitChains ==
    {<<>>,
     <<MidiMessage("NoteOn", 3, 69, 127)>>,
     <<MidiMessage("NoteOn", 0, 57, 100), MidiMessage("NoteOn", 3, 69, 127)>>,
     <<MidiMessage("NoteOn", 3, 69, 127), MidiMessage("CtrlChange", 0, 7, 64),
       MidiMessage("NoteOff", 3, 69, 0)>>,
     <<MidiMessage("ProgramChange", 3, 5, 0)>>,
     <<MidiMessage("NoteOn", 0, 69, 127), MidiMessage("System", 8, 0, 0)>>}

\* the input buffers of the MidiSplit, one or two frames long
SplitInputs == UNION {[1..n -> SplitChains] : n \in 1..MaxBufLen}

\* a MidiSplit, its keep_channel parameter and the buffer its input holds
InitSplit ==
    /\ registry = [node_ctors       |-> [name \in NodeCtors |-> Builtin],
                   resource_ctors   |-> [kind \in ResourceKinds |-> Builtin],
                   resource_loaders |-> [ext \in ResourceLoaderExts |-> Builtin]]
    /\ nodes = (0 :> NewDyn("chordial.sink"))
    /\ node_counter = 0
    /\ resources = << >>
    /\ playing = FALSE
    /\ position = 0
    /\ config = NewConfig
    /\ voice_tracker = NoTracker
    /\ \E keep_channel \in BOOLEAN, input \in SplitInputs :
           last = [NoOp EXCEPT !.op = "midi_split",
                               !.arg = [keep_channel |-> keep_channel, input |-> input]]

\* MidiSplit::render(output, buffer, ..) on a cleared buffer as long as the
\* input, the poll having returned the input
MidiSplitRender(output) ==
    LET input == last.arg.input
        r == MidiSplitApply([st |-> RenderState(nodes),
                             ret |-> Some([kind |-> "Midi", data |-> input])],
                            output,
                            [kind |-> "Midi", data |-> [k \in 1..Len(input) |-> <<>>]],
                            last.arg.keep_channel)
    IN  /\ last.op = "midi_split"
        /\ last' = [last EXCEPT !.op = "midi_split.render",
                                !.len = output,
                                !.out = r.buf.data,
                                !.status = r.st.status]
        /\ UNCHANGED <<config, voice_tracker, registry, nodes, node_counter, resources, playing, position>>

NextSplit == \E output \in 0..(NumChannels - 1) : MidiSplitRender(output)

SpecSplit == InitSplit /\ [][NextSplit]_vars

\* the files loaded while nodes are created and deleted
RefProjects == {ProjectEmpty, ProjectShare, ProjectDangling, ProjectBadOutput}

\* nodes are created and deleted, files are loaded, the engine renders
NextRefs ==
    \/ \E name \in CreateNames : CreateNode(name)
    \/ \E node \in 0..MaxNodeId : DeleteNode(node)
    \/ \E project \in RefProjects : Load(project)
    \/ SetPlaying(TRUE)
    \/ \E len \in 1..MaxBufLen : Render(len, [k \in 1..len |-> FrameZero])

SpecRefs == Init /\ [][NextRefs]_vars

\* three-byte messages as a port delivers them: notes, the four other
\* listed codes, a program change (0xC0) and a clock byte (0xF8, 0, 0)
StatusMessages ==
    {MidiMessage("NoteOn", 0, 69, 127), MidiMessage("NoteOff", 0, 69, 0),
     MidiMessage("PolyKeyPressure", 0, 69, 64), MidiMessage("CtrlChange", 0, 7, 64),
     MidiMessage("ChannelPressure", 0, 64, 0), MidiMessage("PitchBendChange", 0, 0, 64),
     MidiMessage("ProgramChange", 0, 5, 0), MidiMessage("System", 8, 0, 0)}

\* MidiSplit::render(output, ..) on an input of one frame holding msg
MidiSplitRoute(msg, keep_channel, output) ==
    LET r == MidiSplitApply([st |-> RenderState(nodes),
                             ret |-> Some([kind |-> "Midi", data |-> << <<msg>> >>])],
                            output, [kind |-> "Midi", data |-> << <<>> >>], keep_channel)
    IN  /\ Alive
        /\ last' = [NoOp EXCEPT !.op = "midi_split.route",
                                !.arg = Some(msg),
                                !.len = output,
                                !.prior = <<keep_channel>>,
                                !.out = r.buf.data,
                                !.status = r.st.status]
        /\ UNCHANGED <<config, voice_tracker, registry, nodes, node_counter, resources, playing, position>>

\* a tracker, or a MidiSplit in front of it, is sent what the port delivers
NextStatus ==
    \/ \E msg \in StatusMessages : MonoApply(msg)
    \/ \E msg \in StatusMessages : PolyApply(msg)
    \/ \E msg \in StatusMessages, keep_channel \in BOOLEAN, output \in {0, 8} :
          MidiSplitRoute(msg, keep_channel, output)

SpecStatus == InitTracker /\ [][NextStatus]_vars

\* the note lists of a channel: none, one note, two notes in either order,
\* positions and lengths of one, two and three bytes
BlockNoteLists ==
    {<<>>,
     <<MidiNoteDesc(0, 48, 69, 127)>>,
     <<MidiNoteDesc(300, 24, 57, 100), MidiNoteDesc(0, 70000, 69, 0)>>,
     <<MidiNoteDesc(0, 70000, 69, 0), MidiNoteDesc(300, 24, 57, 100)>>}

\* the blocks saved: notes on the channels 0, 1 and 15
SavedBlocks ==
    {[channels |-> [c \in 1..NumChannels |->
                       IF c = 1 THEN a ELSE IF c = 2 THEN b ELSE IF c = 16 THEN d
                       ELSE <<>>]] :
        a \in BlockNoteLists, b \in BlockNoteLists, d \in BlockNoteLists}

\* what the block loaded into holds before: nothing, or notes on channel 0
\* and 2
PreviousBlocks ==
    {[channels |-> [c \in 1..NumChannels |-> <<>>]],
     [channels |-> [c \in 1..NumChannels |->
                       IF c \in {1, 3} THEN <<MidiNoteDesc(12, 12, 60, 90)>> ELSE <<>>]]}

\* a MidiBlock to save and a MidiBlock to load into
InitBlock ==
    /\ registry = [node_ctors       |-> [name \in NodeCtors |-> Builtin],
                   resource_ctors   |-> [kind \in ResourceKinds |-> Builtin],
                   resource_loaders |-> [ext \in ResourceLoaderExts |-> Builtin]]
    /\ nodes = (0 :> NewDyn("chordial.sink"))
    /\ node_counter = 0
    /\ resources = << >>
    /\ playing = FALSE
    /\ position = 0
    /\ config = NewConfig
    /\ voice_tracker = NoTracker
    /\ \E block \in SavedBlocks, previous \in PreviousBlocks :
           last = [NoOp EXCEPT !.op = "midi_block",
                               !.arg = [block |-> block, previous |-> previous]]

\* block.save()
ApplyMidiBlockSave ==
    /\ last.op = "midi_block"
    /\ last' = [last EXCEPT !.op = "midi_block.save",
                            !.out = MidiBlockSaveBytes(last.arg.block, 0)]
    /\ UNCHANGED <<config, voice_tracker, registry, nodes, node_counter, resources, playing, position>>

\* previous.load(&bytes) of the bytes just saved
ApplyMidiBlockLoad ==
    LET r == MidiBlockLoadBytes(last.arg.previous, last.out) IN
    /\ last.op = "midi_block.save"
    /\ last' = [last EXCEPT !.op = "midi_block.load",
                            !.ret = r.block,
                            !.status = IF r.ok THEN "ok" ELSE "panic"]
    /\ UNCHANGED <<config, voice_tracker, registry, nodes, node_counter, resources, playing, position>>

NextBlock ==
    \/ ApplyMidiBlockSave
    \/ ApplyMidiBlockLoad

SpecBlock == InitBlock /\ [][NextBlock]_vars

\* ------------------------------------------------------ resource handles
\* ResourceHandle::new(data, None, id): a new Arc<RwLock<ResourceData>>;
\* arc names the allocation, handles with the same arc share it
ArcData(kind, id, data, arc) ==
    [kind |-> kind, id |-> id, data |-> data, path |-> None, arc |-> arc]

\* the allocations the handles of the engine and of the nodes point to
ArcsInUse ==
    {resources[id].arc : id \in DOMAIN resources}
        \cup {nodes[n].data.some.arc : n \in {m \in DOMAIN nodes : nodes[m].data # None}}

\* Arc::new: an allocation no handle points to
RECURSIVE FreshArc(_)
FreshArc(a) == IF a \in ArcsInUse THEN FreshArc(a + 1) ELSE a

\* T::default() of the resource kinds: MidiBlock, AudioData
ResourceDefault(kind) ==
    IF kind = "MidiBlock" THEN MidiBlockDefault ELSE [data |-> <<>>, sample_rate |-> 0]

\* Engine::create_resource(kind) for a registered kind, and the host's
\* Engine::add_resource(AudioData { .. }): add_resource_with_id under the
\* next unused id
CreateResource(kind) ==
    LET id == Probe(0, DOMAIN resources) IN
    /\ Alive
    /\ Cardinality(DOMAIN resources) < MaxResources
    /\ resources' = [k \in DOMAIN resources \cup {id} |->
                        IF k = id THEN ArcData(kind, id, ResourceDefault(kind), FreshArc(0))
                        ELSE resources[k]]
    /\ last' = [NoOp EXCEPT !.op = "create_resource", !.arg = Some(kind), !.ret = Some(id)]
    /\ UNCHANGED <<config, voice_tracker, registry, nodes, node_counter, playing, position>>

\* faulty variant of LinkDyn: the slot gets a copy of the data, not the Arc
LinkDynCopy(slot, linked) == Some([linked EXCEPT !.arc = FreshArc(0)])

\* ResourceHandle::link_dyn past the downcast: the slot's inner becomes a
\* clone of the linked handle's Arc
LinkDyn(slot, linked) == Some(linked)

\* the kind of the slot `resource` of a node: MidiClip has the one slot
\* "data", a ResourceHandle<MidiBlock>
SlotKind(inst, resource) ==
    IF inst.ctor = "chordial.midi_clip" /\ resource = "data" THEN Some("MidiBlock") ELSE None

\* Engine::link_resource; last.ret is the slot as it was before the call
LinkResource(node, resource, id) ==
    LET fails == \/ id \notin DOMAIN resources
                 \/ node \notin DOMAIN nodes
                 \/ SlotKind(nodes[node], resource) = None
                 \/ SlotKind(nodes[node], resource) # Some(resources[id].kind)
    IN  /\ Alive
        /\ node \in DOMAIN nodes
        /\ nodes' = IF fails THEN nodes
                    ELSE [nodes EXCEPT ![node].data = LinkDyn(@, resources[id])]
        /\ last' = [NoOp EXCEPT !.op = "link_resource",
                                !.arg = Some([node |-> node, resource |-> resource, id |-> id]),
                                !.ret = nodes[node].data,
                                !.status = IF fails THEN "panic" ELSE "ok"]
        /\ UNCHANGED <<config, voice_tracker, registry, resources, node_counter, playing, position>>

\* MidiBlock::apply_action("add_note", [channel, note, len, pos, vel])
AddNote(block, channel, desc) ==
    [block EXCEPT !.channels[channel + 1] = Append(@, desc)]

\* the write through the RwLock of the allocation arc: every handle that
\* points to it reads the new data
WriteArc(arc, channel, desc) ==
    /\ resources' = [id \in DOMAIN resources |->
                        IF resources[id].arc = arc
                        THEN [resources[id] EXCEPT !.data = AddNote(@, channel, desc)]
                        ELSE resources[id]]
    /\ nodes' = [n \in DOMAIN nodes |->
                    IF nodes[n].data # None /\ nodes[n].data.some.arc = arc
                    THEN [nodes[n] EXCEPT !.data = Some([@.some EXCEPT
                                                     !.data = AddNote(@, channel, desc)])]
                    ELSE nodes[n]]

\* engine.get_resource_by_id(id).unwrap().apply_action("add_note", ..)
ApplyActionById(id, desc) ==
    /\ Alive
    /\ id \in DOMAIN resources
    /\ resources[id].kind = "MidiBlock"
    /\ Len(resources[id].data.channels[1]) < MaxNotes
    /\ WriteArc(resources[id].arc, 0, desc)
    /\ last' = [NoOp EXCEPT !.op = "apply_action", !.arg = Some([id |-> id, note |-> desc])]
    /\ UNCHANGED <<config, voice_tracker, registry, node_counter, playing, position>>

\* node.get_resource("data").apply_action("add_note", ..): the unwrap of an
\* empty handle's inner panics
ApplyActionBySlot(node, desc) ==
    /\ Alive
    /\ node \in DOMAIN nodes
    /\ nodes[node].ctor = "chordial.midi_clip"
    /\ IF nodes[node].data = None
       THEN /\ last' = [NoOp EXCEPT !.op = "slot.apply_action",
                                    !.arg = Some([node |-> node, note |-> desc]),
                                    !.status = "panic"]
            /\ UNCHANGED <<nodes, resources>>
       ELSE /\ Len(nodes[node].data.some.data.channels[1]) < MaxNotes
            /\ WriteArc(nodes[node].data.some.arc, 0, desc)
            /\ last' = [NoOp EXCEPT !.op = "slot.apply_action",
                                    !.arg = Some([node |-> node, note |-> desc])]
    /\ UNCHANGED <<config, voice_tracker, registry, node_counter, playing, position>>

\* the note added through the handles
LinkNotes == {MidiNoteDesc(0, 48, 69, 127)}

\* the host creates MidiClips and resources, links them, edits the blocks
NextLink ==
    \/ Cardinality(DOMAIN nodes \ {0}) < MaxClips /\ CreateNode("chordial.midi_clip")
    \/ \E kind \in {"MidiBlock", "AudioData"} : CreateResource(kind)
    \/ \E node \in 1..MaxClips, resource \in {"data", "sample"}, id \in 0..MaxResources :
          LinkResource(node, resource, id)
    \/ \E id \in 0..MaxResources, desc \in LinkNotes : ApplyActionById(id, desc)
    \/ \E node \in 1..MaxClips, desc \in LinkNotes : ApplyActionBySlot(node, desc)

SpecLink == Init /\ [][NextLink]_vars

\* ------------------------------------------------------------ Gain effect
\* the gains set on the Gain node, in dB, and the samples of its input, in
\* units of 1 / One: multiples of 100 so that a tenth and a hundredth are exact
GainValues == {-20, -10, 0, 10, 20}
GainSamples == {-100, 0, 100}

GainInputs ==
    UNION {[1..len -> GainSamples \X GainSamples] : len \in 1..MaxBufLen}

\* a Gain with its parameter set, and the buffer the poll of its input left
InitGainEffect ==
    /\ registry = [node_ctors       |-> [name \in NodeCtors |-> Builtin],
                   resource_ctors   |-> [kind \in ResourceKinds |-> Builtin],
                   resource_loaders |-> [ext \in ResourceLoaderExts |-> Builtin]]
    /\ nodes = (0 :> NewDyn("chordial.sink"))
    /\ node_counter = 0
    /\ resources = << >>
    /\ playing = FALSE
    /\ position = 0
    /\ config = NewConfig
    /\ voice_tracker = NoTracker
    /\ \E gain \in GainValues, data \in GainInputs :
           last = [NoOp EXCEPT !.op = "gain",
                               !.arg = [gain |-> gain, data |-> data]]

\* Gain::param_updated(0, Float(gain)) and Gain::render_effect on the buffer
GainRenderEffect ==
    /\ last.op = "gain"
    /\ LET inst == SetParam(NewDyn("chordial.gain"), 0, Float(last.arg.gain)).inst
           p == GainApply([st |-> RenderState(nodes),
                           buf |-> [kind |-> "Audio", data |-> last.arg.data]],
                          DbToFactor(inst.gain))
       IN  last' = [last EXCEPT !.op = "render_effect",
                                !.out = p.buf.data,
                                !.status = p.st.status]
    /\ UNCHANGED <<config, voice_tracker, registry, nodes, node_counter, resources, playing, position>>

NextGainEffect == GainRenderEffect

SpecGainEffect == InitGainEffect /\ [][NextGainEffect]_vars

\* the configurations the conversions are applied under: Engine::new(48000),
\* Engine::new(44100) and the configuration of the graph above, bpm 120 each
HostConfigs == {[sample_rate |-> 48000, bpm |-> 120],
                [sample_rate |-> 44100, bpm |-> 120],
                NewConfig}

\* a configuration and a frame count
InitTimeline ==
    /\ registry = [node_ctors       |-> [name \in NodeCtors |-> Builtin],
                   resource_ctors   |-> [kind \in ResourceKinds |-> Builtin],
                   resource_loaders |-> [ext \in ResourceLoaderExts |-> Builtin]]
    /\ nodes = (0 :> NewDyn("chordial.sink"))
    /\ node_counter = 0
    /\ resources = << >>
    /\ playing = FALSE
    /\ position = 0
    /\ config = NewConfig
    /\ voice_tracker = NoTracker
    /\ \E cfg \in HostConfigs, frames \in 0..MaxFrames :
           last = [NoOp EXCEPT !.op = "config",
                               !.arg = [config |-> cfg, frames |-> frames]]

\* config.frames_to_tl_units(frames)
ApplyFramesToTlUnits ==
    /\ last.op = "config"
    /\ last' = [last EXCEPT !.op = "frames_to_tl_units",
                            !.ret = ConfigFramesToTlUnits(last.arg.config, last.arg.frames)]
    /\ UNCHANGED <<config, voice_tracker, registry, nodes, node_counter, resources, playing, position>>

\* config.tl_units_to_frames(tl) of the units just computed
ApplyTlUnitsToFrames ==
    /\ last.op = "frames_to_tl_units"
    /\ last' = [last EXCEPT !.op = "tl_units_to_frames",
                            !.len = last.ret,
                            !.ret = ConfigTlUnitsToFrames(last.arg.config, last.ret)]
    /\ UNCHANGED <<config, voice_tracker, registry, nodes, node_counter, resources, playing, position>>

NextTimeline ==
    \/ ApplyFramesToTlUnits
    \/ ApplyTlUnitsToFrames

SpecTimeline == InitTimeline /\ [][NextTimeline]_vars

\* -------------------------------------------------------------- properties
\* the producers the inputs of node n name
Producers(ns, n) ==
    UNION {{ns[n].inputs[k].refs[j].node : j \in 1..Len(ns[n].inputs[k].refs)} :
           k \in 1..Len(ns[n].inputs)}

\* the nodes reachable from S along input edges
RECURSIVE Upstream(_, _)
Upstream(ns, S) ==
    LET T == S \cup UNION {Producers(ns, n) : n \in S \cap DOMAIN ns}
    IN  IF T = S THEN S ELSE Upstream(ns, T)

Acyclic(ns) == \A n \in DOMAIN ns : n \notin Upstream(ns, Producers(ns, n))

\* the positions of the events ev on ref in a render log
Events(log, ev, ref) == {k \in 1..Len(log) : log[k].ev = ev /\ log[k].ref = ref}

\* the outputs a render log mentions
LogRefs(log) == {log[k].ref : k \in {j \in 1..Len(log) : log[j].ev # "fanin"}}

Silence(len) == [k \in 1..len |-> FrameZero]

PlayedRender == last.op = "render" /\ last.arg = Some(TRUE)

\* C1: within one render on an acyclic graph every (node, output) is rendered
\* at most once; exactly once when it is pulled with buffer_len > 0 and not
\* skipped by the timeline optimization; and every pull of it returns, with
\* the buffer the first pull returned.
C1_RenderedOnceAndCached ==
    (PlayedRender /\ Acyclic(nodes)) =>
        \A ref \in LogRefs(last.log) :
            /\ Cardinality(Events(last.log, "render", ref)) <= 1
            /\ (last.len > 0 /\ Events(last.log, "wlock", ref) # {})
                  => Cardinality(Events(last.log, "render", ref)) = 1
            /\ Cardinality(Events(last.log, "pull", ref))
                  = Cardinality(Events(last.log, "wlock", ref))
                    + Cardinality(Events(last.log, "skip", ref))
            /\ \A j, k \in Events(last.log, "pull", ref) :
                  last.log[j].buf = last.log[k].buf

\* C2: during render on an acyclic graph the render thread never asks for the
\* write lock of an output buffer it still holds a guard on, and render returns.
C2_NoWriteLockUnderReadGuard ==
    (PlayedRender /\ Acyclic(nodes)) =>
        /\ \A k \in 1..Len(last.log) : last.log[k].ev = "wlock" => ~last.log[k].held
        /\ last.status # "deadlock"

\* C3: with playing false, render zero-fills the host buffer, renders and
\* advances no node, and leaves the nodes, their caches and the graph as
\* they were.
C3_StoppedRenderIsSilent ==
    [][(last'.op = "render" /\ ~playing) =>
          /\ last'.out = Silence(last'.len)
          /\ last'.status = "ok"
          /\ last'.log = <<>>
          /\ nodes' = nodes
          /\ node_counter' = node_counter]_vars

C3_Witness ==
    /\ last.op = "render" /\ last.arg = Some(FALSE)
    /\ last.len = 2 /\ last.prior = <<<<One, One>>, <<One, One>>>>
    /\ last.out = Silence(2)
    /\ 0 \in DOMAIN nodes /\ nodes[0].inputs[1].refs # <<>>

\* C4 as stated: every render call advances position by the buffer length.
C4_EveryRenderAdvances ==
    [][last'.op = "render" => position' = position + last'.len]_vars

\* C4 amended: a render call that returns advances position by the buffer
\* length when playing is true and leaves it alone when playing is false.
C4_PlayingRenderAdvances ==
    [][(last'.op = "render" /\ last'.status = "ok") =>
          position' = IF playing THEN position + last'.len ELSE position]_vars

C4_Witness ==
    /\ last.op = "render" /\ last.arg = Some(FALSE) /\ last.status = "ok"
    /\ last.len = 2
    /\ position = 0

\* C5: with playing true and the Sink's input unconnected, render leaves
\* every frame (0, 0) whatever the buffer held before.
C5_UnconnectedSinkIsSilent ==
    (/\ PlayedRender /\ last.status = "ok"
     /\ 0 \in DOMAIN nodes /\ nodes[0].ctor = "chordial.sink"
     /\ nodes[0].inputs[1].refs = <<>>)
        => last.out = Silence(last.len)

\* the element a fan-in of the sources srcs has at frame i: the sum of the
\* sources' elements there, for Midi their chains one after the other
RECURSIVE SumAt(_, _, _, _)
SumAt(kind, srcs, i, k) ==
    IF k > Len(srcs) THEN ZeroOf(kind)
    ELSE LET x == IF i <= Len(srcs[k]) THEN srcs[k][i] ELSE ZeroOf(kind)
             rest == SumAt(kind, srcs, i, k + 1)
         IN  IF kind = "Audio" THEN AddFrame(x, rest)
             ELSE IF kind = "Midi" THEN x \o rest
             ELSE x + rest

\* C6: every poll_input on an input with two or more sources returns a buffer
\* of the requested length whose element at each frame is the sum of the
\* sources' elements at that frame (Audio componentwise, Control scalar), for
\* Midi the sources' chains concatenated in connection order.
C6_FanInIsSum ==
    PlayedRender =>
        \A k \in 1..Len(last.log) :
            last.log[k].ev = "fanin" =>
                /\ Len(last.log[k].buf) = last.len
                /\ \A i \in 1..last.len :
                      last.log[k].buf[i] = SumAt(last.log[k].kind, last.log[k].srcs, i, 1)

\* the end of a timeline node's span, in timeline units
SpanEnd(inst) ==
    inst.tl.position + GetTimelineLength(inst) - inst.tl.start_offset - inst.tl.end_offset

\* the polls of timeline nodes in the log of the render just made: positions
\* of the "skip" and "wlock" events on outputs of timeline-capable nodes
TimelinePolls ==
    {k \in 1..Len(last'.log) :
        /\ last'.log[k].ev \in {"skip", "wlock"}
        /\ last'.log[k].ref.node \in DOMAIN nodes
        /\ IsTimelineCtor(nodes[last'.log[k].ref.node].ctor)}

\* the event after a skip is the return of the output, and it is empty
SkipReturnsEmpty(k) ==
    /\ k < Len(last'.log)
    /\ last'.log[k + 1].ev = "pull"
    /\ last'.log[k + 1].ref = last'.log[k].ref
    /\ last'.log[k + 1].buf = <<>>

\* C11: poll_node_output on a timeline-capable producer returns the cleared
\* (length 0) output without invoking the node's render exactly when the
\* transport window [tl_pos, tl_pos + buffer_len_tl) lies entirely outside the
\* half-open span [position, position + length - start_offset - end_offset),
\* and renders the node in every other case.
C11_SkipsOutsideHalfOpenSpan ==
    [][(last'.op = "render" /\ playing) =>
          \A k \in TimelinePolls :
              LET inst == nodes[last'.log[k].ref.node]
                  tl_pos == FramesToTlUnits(position)
                  tl_len == FramesToTlUnits(last'.len)
              IN  /\ (last'.log[k].ev = "skip")
                        <=> (tl_pos + tl_len <= inst.tl.position \/ tl_pos >= SpanEnd(inst))
                  /\ last'.log[k].ev = "skip" => SkipReturnsEmpty(k)]_vars

\* C11 (amended): the output is returned cleared and without invoking render
\* exactly when the window ends strictly before the node's position or starts
\* strictly after the end of its span; a window touching either end renders.
C11_SkipsStrictlyOutsideSpan ==
    [][(last'.op = "render" /\ playing) =>
          \A k \in TimelinePolls :
              LET inst == nodes[last'.log[k].ref.node]
                  tl_pos == FramesToTlUnits(position)
                  tl_len == FramesToTlUnits(last'.len)
              IN  /\ (last'.log[k].ev = "skip")
                        <=> (tl_pos + tl_len < inst.tl.position \/ tl_pos > SpanEnd(inst))
                  /\ last'.log[k].ev = "skip" => SkipReturnsEmpty(k)]_vars

\* a render whose window starts exactly at the end of a MidiClip's span, and
\* which rendered the clip
C11_Witness ==
    /\ PlayedRender /\ last.status = "ok" /\ last.len = 1 /\ position = 3
    /\ \E k \in 1..Len(last.log) :
          /\ last.log[k].ev = "render"
          /\ last.log[k].ref.node \in DOMAIN nodes
          /\ nodes[last.log[k].ref.node].ctor = "chordial.midi_clip"
          /\ FramesToTlUnits(position - last.len) = SpanEnd(nodes[last.log[k].ref.node])

\* C13: seek(pos) sets Engine.position to pos and every node's playback
\* counter to pos, leaves PolyOsc without voices, and leaves playing, the
\* node set, the edges and the parameters unchanged.
C13_SeekRepositionsEveryNode ==
    [][last'.op = "seek" =>
          /\ position' = last'.arg.some
          /\ playing' = playing
          /\ DOMAIN nodes' = DOMAIN nodes
          /\ \A n \in DOMAIN nodes :
                /\ nodes'[n].ctor = nodes[n].ctor
                /\ nodes'[n].inputs = nodes[n].inputs
                /\ nodes'[n].params = nodes[n].params
                /\ nodes[n].ctor \in {"chordial.sine", "chordial.envelope",
                                      "chordial.trigger", "chordial.polyosc",
                                      "chordial.midi_clip"}
                      => nodes'[n].pos = last'.arg.some
                /\ nodes'[n].notes.voices = <<>>]_vars

\* a seek made while a PolyOsc voice was sounding, away from the position
\* the nodes were at
C13_Witness ==
    /\ last.op = "seek" /\ last.arg = Some(0) /\ last.ret # None /\ last.ret.some > 0
    /\ position = 0
    /\ \E n \in DOMAIN nodes : nodes[n].ctor = "chordial.polyosc" /\ nodes[n].pos = 0

\* what of a node Engine::save writes and the state its parameters derive:
\* the parameter-derived fields are what the node's render reads
Persistent(inst) ==
    [ctor |-> inst.ctor,
     refs |-> [k \in 1..Len(inst.inputs) |-> inst.inputs[k].refs],
     params |-> inst.params,
     rate |-> inst.rate, gain |-> inst.gain, value |-> inst.value,
     keep_channel |-> inst.keep_channel,
     data |-> inst.data]

\* C12: saving an engine and loading the file into a fresh engine yields the
\* same node ids, constructors, per-input reference lists, parameter values,
\* resources and node-to-resource links, with every node in the state that
\* determines what it renders
C12_SaveLoadRoundTrip ==
    [][last'.op = "reload" =>
          /\ last'.status = "ok"
          /\ DOMAIN nodes' = DOMAIN nodes
          /\ resources' = resources
          /\ \A n \in DOMAIN nodes : Persistent(nodes'[n]) = Persistent(nodes[n])]_vars

\* C14: every node has as many inputs and outputs as its node declares, and
\* every edge joins an output and an input of one BusKind
C14_ShapeAndKindInvariant ==
    \A n \in DOMAIN nodes :
        /\ Len(nodes[n].inputs) = Len(GetInputs(nodes[n].ctor))
        /\ Len(nodes[n].outputs) = Len(GetOutputs(nodes[n].ctor))
        /\ \A k \in 1..Len(nodes[n].inputs) :
               \A j \in 1..Len(nodes[n].inputs[k].refs) :
                   LET ref == nodes[n].inputs[k].refs[j] IN
                   ref.node \in DOMAIN nodes =>
                       /\ ref.output < Len(GetOutputs(nodes[ref.node].ctor))
                       /\ GetOutputs(nodes[ref.node].ctor)[ref.output + 1]
                              = GetInputs(nodes[n].ctor)[k]

\* the elements of a file that the load must not get past: neither a resource
\* nor a node, a node of an unregistered constructor, a resource of an unknown
\* storage tag, an external resource that no loader produces
Unloadable(el) ==
    \/ el.el \notin {"res", "node"}
    \/ el.el = "node" /\ el.ctor \notin NodeCtors
    \/ el.el = "res" /\ el.storage \notin {"internal", "external"}
    \/ /\ el.el = "res" /\ el.storage = "external"
       /\ (el.ext = None \/ el.ext.some \notin ResourceLoaderExts \/ ~el.found)

\* C15: a load of a file with an unknown constructor, a malformed line, an
\* unknown storage tag or an external resource that cannot be loaded panics,
\* and a load that completes has every resource of the file in the registry
C15_LoadFailsFatally ==
    last.op = "load" =>
        /\ (\E k \in 1..Len(last.arg.some) : Unloadable(last.arg.some[k]))
               => last.status = "panic"
        /\ last.status = "ok" =>
               \A k \in 1..Len(last.arg.some) :
                   last.arg.some[k].el = "res" => last.arg.some[k].id \in DOMAIN resources

\* C16: a registration under a name, kind or extension that is already
\* registered panics and leaves every earlier registration in place
C16_DuplicateRegistrationIsFatal ==
    [][/\ (last'.op = "register_node" /\ last'.arg.some \in DOMAIN registry.node_ctors)
            => (last'.status = "panic" /\ registry' = registry)
       /\ (last'.op = "register_resource"
             /\ last'.arg.some \in DOMAIN registry.resource_ctors)
            => (last'.status = "panic" /\ registry' = registry)
       /\ (last'.op = "register_resource_loader"
             /\ \E k \in 1..Len(last'.arg.some) :
                    last'.arg.some[k] \in DOMAIN registry.resource_loaders)
            => (last'.status = "panic" /\ registry' = registry)]_vars

C18_GraphStaysAcyclic == Acyclic(nodes)

\* the edge from ref to input k of node n joins two different BusKinds
KindMismatch(ns, n, k, ref) ==
    /\ k <= Len(GetInputs(ns[n].ctor))
    /\ ref.node \in DOMAIN ns
    /\ ref.output < Len(GetOutputs(ns[ref.node].ctor))
    /\ GetOutputs(ns[ref.node].ctor)[ref.output + 1] # GetInputs(ns[n].ctor)[k]

\* the inputs a render that returned has pulled: those of the Sink and of
\* every node it rendered, an Envelope's up to its first unconnected one
PulledInputs(ns, log) ==
    {nk \in {<<n, k>> : n \in DOMAIN ns, k \in 1..5} :
        /\ nk[2] <= Len(ns[nk[1]].inputs)
        /\ \/ nk[1] = 0 /\ ns[nk[1]].ctor = "chordial.sink"
           \/ \E e \in 1..Len(log) : log[e].ev = "render" /\ log[e].ref.node = nk[1]
        /\ ns[nk[1]].ctor = "chordial.envelope" =>
               \A j \in 1..(nk[2] - 1) : ns[nk[1]].inputs[j].refs # <<>>}

MidiIns(ns) == {n \in DOMAIN ns : ns[n].ctor = "chordial.cli.midi-in" /\ ns[n].receiver # None}

\* seq begins with pre
IsPrefix(pre, seq) == Len(pre) <= Len(seq) /\ SubSeq(seq, 1, Len(pre)) = pre

\* C20: the messages the MIDI callback has sent stay queued, in send order,
\* until a render renders the node, and that render moves all of them, in
\* order, into frame 0 of the node's output and leaves the queue empty
C20_MidiDeliveredOnceInOrder ==
    [][last'.op # "load" =>
          \A n \in MidiIns(nodes) :
              IF /\ last'.op = "render"
                 /\ \E e \in 1..Len(last'.log) :
                        last'.log[e].ev = "render" /\ last'.log[e].ref = OutputRef(n, 0)
              THEN last'.status = "ok" =>
                      /\ n \in MidiIns(nodes')
                      /\ nodes'[n].receiver = Some(<<>>)
                      /\ \A e \in 1..Len(last'.log) :
                             (last'.log[e].ev = "pull" /\ last'.log[e].ref = OutputRef(n, 0))
                                 => /\ Len(last'.log[e].buf) = last'.len
                                    /\ last'.log[e].buf[1] = nodes[n].receiver.some
                                    /\ \A k \in 2..last'.len : last'.log[e].buf[k] = <<>>
              ELSE /\ n \in MidiIns(nodes')
                   /\ IsPrefix(nodes[n].receiver.some, nodes'[n].receiver.some)]_vars

\* what scenario S3 expects at frame f with the Trigger at frame t: 0 before
\* t, a rise from 0 to 1 over two frames, a decay to 0.5 over the next two,
\* then 0.5
ExpectedS3(f, t) ==
    IF f < t THEN 0
    ELSE IF f - t <= 2 THEN ((f - t) * One) \div 2
    ELSE IF f - t <= 4 THEN One - ((f - t - 2) * One) \div 4
    ELSE One \div 2

\* C21: in scenario S3 every rendered frame carries the expected envelope
\* value: the envelope attacks, decays and then holds its sustain level
C21_ScenarioS3 ==
    (PlayedRender /\ 8 \in DOMAIN nodes /\ nodes[8].ctor = "chordial.trigger") =>
        /\ last.status = "ok"
        /\ \A k \in 1..last.len :
               LET f == position - last.len + (k - 1)
                   want == ExpectedS3(f, TlUnitsToFrames(nodes[8].tl.position))
               IN  last.out[k] = <<want, want>>

\* a frame count that is a whole number of timeline units
OnTickBoundary(cfg, frames) ==
    (frames * cfg.bpm * STEP_DIVISIONS * BEAT_DIVISIONS) % (cfg.sample_rate * 60) = 0

\* C22: the frames the round trip frames -> timeline units -> frames returns
\* equal f when f is on a tick boundary, never exceed f, and are less than
\* one timeline unit's worth of frames below f
C22_RoundTripContracts ==
    last.op = "tl_units_to_frames" =>
        LET cfg == last.arg.config
            f == last.arg.frames
            back == last.ret
        IN  /\ OnTickBoundary(cfg, f) => back = f
            /\ back <= f
            /\ (f - back) * cfg.bpm * STEP_DIVISIONS * BEAT_DIVISIONS
                   < cfg.sample_rate * 60

\* frame f is the first whose timeline position reaches tl
FirstReaches(f, tl) ==
    FramesToTlUnits(f) >= tl /\ (f = 0 \/ FramesToTlUnits(f - 1) < tl)

\* the messages one note is due in frame f: its NoteOn, then its NoteOff
NoteDue(inst, f, channel, note) ==
    (IF FirstReaches(f, inst.tl.position + note.pos)
     THEN <<MidiMessage("NoteOn", channel, note.note, note.vel)>> ELSE <<>>)
    \o
    (IF note.len > 0 /\ FirstReaches(f, inst.tl.position + note.pos + note.len)
     THEN <<MidiMessage("NoteOff", channel, note.note, note.vel)>> ELSE <<>>)

\* the messages the notes of channel 0 from the k-th on are due in frame f
RECURSIVE ClipDue(_, _, _)
ClipDue(inst, f, k) ==
    LET notes == inst.data.some.data.channels[1] IN
    IF k > Len(notes) THEN <<>>
    ELSE NoteDue(inst, f, 0, notes[k]) \o ClipDue(inst, f, k + 1)

\* what the consumer of `ref` received for the k-th frame of the last
\* render; `nothing` where the buffer it was handed has no k-th frame
ReceivedOr(ref, k, nothing) ==
    LET pulls == Events(last.log, "pull", ref) IN
    IF pulls = {} THEN nothing
    ELSE LET buf == last.log[CHOOSE e \in pulls : TRUE].buf
         IN  IF k <= Len(buf) THEN buf[k] ELSE nothing

\* the MIDI chain the consumer of `ref` received for the k-th frame
Received(ref, k) == ReceivedOr(ref, k, <<>>)

\* a render of the playing clip of ProjectClip, played without a break from 0
ClipPlayed ==
    /\ PlayedRender
    /\ 2 \in DOMAIN nodes
    /\ nodes[2].ctor = "chordial.midi_clip"
    /\ nodes[2].data # None

\* C23: in every frame of uninterrupted playback from 0 the MidiClip emits
\* exactly the messages due in that frame: a note's NoteOn in the first
\* frame that reaches clip position + pos, its NoteOff (len > 0 only) in the
\* first frame that reaches clip position + pos + len, the NoteOn first
C23_ClipEmitsEachNoteOnce ==
    ClipPlayed =>
        /\ last.status = "ok"
        /\ \A k \in 1..last.len :
               Received(OutputRef(2, 0), k) = ClipDue(nodes[2], position - last.len + (k - 1), 1)

\* the timeline node n as it was when the last render began
AtRenderStart(n) == [nodes[n] EXCEPT !.pos = position - last.len]

\* C24: under continuous playback what the consumer of a MidiClip or a
\* Trigger receives in every frame is what the node's render produces for
\* that frame, whether or not poll_node_output skipped the render
C24_SkipKeepsOutput ==
    (PlayedRender /\ last.status = "ok") =>
        /\ ClipPlayed =>
               \A k \in 1..last.len :
                   Received(OutputRef(2, 0), k)
                       = MidiClipFrame(AtRenderStart(2), k - 1, 0, 1, <<>>)
        /\ (3 \in DOMAIN nodes /\ nodes[3].ctor = "chordial.trigger") =>
               \A k \in 1..last.len :
                   ReceivedOr(OutputRef(3, 0), k, 0)
                       = TriggerRender(AtRenderStart(3),
                                       [kind |-> "Control",
                                        data |-> [j \in 1..last.len |-> 0]]).data[k]

\* C25: the polls of one fan-in input within one render all return the same
\* buffer: the scratch buffer is not accumulated into again by a later poll
C25_RepollReturnsSameBuffer ==
    PlayedRender =>
        \A j, k \in 1..Len(last.log) :
            (/\ last.log[j].ev = "fanin" /\ last.log[k].ev = "fanin"
             /\ last.log[j].ref = last.log[k].ref)
                => last.log[j].buf = last.log[k].buf

\* the voice a NoteOn creates
NewVoice(msg) ==
    [note |-> msg.note, channel |-> msg.channel, velocity |-> msg.vel,
     progress |-> 0, released |-> FALSE, release_point |-> 0]

\* C26: on the MonoVoiceTracker a NoteOn with velocity > 0 replaces the voice
\* by a new one; a NoteOff or a NoteOn with velocity 0 changes the voice only
\* if channel and note are those of the active voice, and then drops it when
\* release_length is 0 and otherwise marks it released with release_point =
\* progress + buffer_progress
C26_MonoNoteOnNoteOff ==
    [][last'.op = "mono.apply_midi_message" =>
          LET msg == last'.arg.some
              t == voice_tracker.mono.some
              t2 == voice_tracker'.mono.some
          IN  /\ t2.release_length = t.release_length
              /\ (msg.code = "NoteOn" /\ msg.vel > 0) => t2.voice = Some(NewVoice(msg))
              /\ (msg.code = "NoteOff" \/ (msg.code = "NoteOn" /\ msg.vel = 0)) =>
                     IF /\ t.voice # None
                        /\ t.voice.some.channel = msg.channel
                        /\ t.voice.some.note = msg.note
                     THEN IF t.release_length = 0 THEN t2.voice = None
                          ELSE t2.voice =
                                 Some([t.voice.some EXCEPT
                                          !.released = TRUE,
                                          !.release_point =
                                              t.voice.some.progress + voice_tracker.frame])
                     ELSE t2.voice = t.voice]_vars

\* a NoteOff for another channel than the one of the sounding voice has just
\* been applied and the voice is still there
C26_Witness ==
    /\ last.op = "mono.apply_midi_message"
    /\ last.arg.some.code = "NoteOff"
    /\ voice_tracker.mono.some.voice # None
    /\ voice_tracker.mono.some.voice.some.note = last.arg.some.note
    /\ voice_tracker.mono.some.voice.some.channel # last.arg.some.channel
    /\ ~voice_tracker.mono.some.voice.some.released

\* C27: a PolyVoiceTracker with polyphony p > 0 never holds more than p
\* voices; a NoteOn with velocity > 0 that arrives with fewer than p voices
\* held, or with p = 0, puts a new voice (progress 0) under its (channel,
\* note) key, replacing the voice of that key
C27_PolyphonyCap ==
    [][voice_tracker'.poly # None =>
          LET t == voice_tracker.poly.some
              t2 == voice_tracker'.poly.some
          IN  /\ t2.polyphony > 0 => Cardinality(DOMAIN t2.voices) <= t2.polyphony
              /\ (/\ last'.op = "poly.apply_midi_message"
                  /\ last'.arg.some.code = "NoteOn" /\ last'.arg.some.vel > 0
                  /\ (Cardinality(DOMAIN t.voices) < t.polyphony \/ t.polyphony = 0))
                     => t2.voices = Insert(t.voices,
                                           <<last'.arg.some.channel, last'.arg.some.note>>,
                                           NewVoice(last'.arg.some))]_vars

\* a NoteOn for a second key has just been turned away at the cap
C27_Witness ==
    /\ last.op = "poly.apply_midi_message"
    /\ last.arg.some.code = "NoteOn" /\ last.arg.some.vel > 0
    /\ voice_tracker.poly.some.polyphony = 1
    /\ Cardinality(DOMAIN voice_tracker.poly.some.voices) = 1
    /\ <<last.arg.some.channel, last.arg.some.note>>
           \notin DOMAIN voice_tracker.poly.some.voices

\* v after `samples` more frames
Stepped(v, samples) == [v EXCEPT !.progress = @ + samples]

\* v is released and release_length or more frames past its release point
PastRelease(v, release_length) ==
    v.released /\ v.progress - v.release_point >= release_length

VoicesAtPurge ==
    IF last'.op = "osc.render"
    THEN MonoVoices(OscFrames(voice_tracker.mono.some, last'.arg.some, 0))
    ELSE PolyVoices(PolyOscFrames(voice_tracker.poly.some,
                                  [k \in 1..last'.len |-> FrameZero],
                                  last'.arg.some, 0).tracker)

Pulled(log, ref) == log[CHOOSE e \in Events(log, "pull", ref) : TRUE].buf

\* the latch of the Envelope after the frames i.. of a buffer whose trig
\* values are trig, the buffer starting at frame pos
RECURSIVE Latched(_, _, _, _)
Latched(e, pos, trig, i) ==
    IF i > Len(trig) THEN e
    ELSE Latched(
            IF ~e.active /\ 2 * trig[i] >= One
            THEN [e EXCEPT !.start = pos + (i - 1), !.active = TRUE]
            ELSE IF e.active /\ 2 * trig[i] < One
            THEN [e EXCEPT !.end = pos + (i - 1), !.active = FALSE]
            ELSE e,
            pos, trig, i + 1)

\* the render just made returned, and it rendered the Envelope 3 on trig 8
EnvelopeRendered ==
    /\ last'.op = "render" /\ playing /\ last'.status = "ok"
    /\ 3 \in DOMAIN nodes /\ nodes[3].ctor = "chordial.envelope"
    /\ Events(last'.log, "render", OutputRef(3, 0)) # {}
    /\ Events(last'.log, "pull", OutputRef(8, 0)) # {}
    /\ Events(last'.log, "pull", OutputRef(3, 0)) # {}

\* C30: a render leaves start, end and active of the Envelope as the
\* per-frame latch leaves them (inactive and trig >= 0.5: start = pos + i,
\* active; active and trig < 0.5: end = pos + i, inactive; no change in any
\* other frame), and every output frame before the first trigger is 0
C30_EnvelopeLatch ==
    [][EnvelopeRendered =>
          LET trig == Pulled(last'.log, OutputRef(8, 0))
              out == Pulled(last'.log, OutputRef(3, 0))
              e == Latched([start |-> nodes[3].start, end |-> nodes[3].end,
                            active |-> nodes[3].active], nodes[3].pos, trig, 1)
          IN  /\ nodes'[3].start = e.start
              /\ nodes'[3].end = e.end
              /\ nodes'[3].active = e.active
              /\ \A k \in 1..Len(out) :
                     (/\ nodes[3].start = UsizeMax
                      /\ \A j \in 1..k : j <= Len(trig) => 2 * trig[j] < One)
                         => out[k] = 0]_vars

\* the Envelope has been triggered, and later released by a trig of 0.25
C30_Witness ==
    /\ last.op = "render" /\ last.status = "ok"
    /\ 3 \in DOMAIN nodes /\ nodes[3].ctor = "chordial.envelope"
    /\ nodes[3].start # UsizeMax /\ nodes[3].end # UsizeMax
    /\ nodes[3].end > nodes[3].start
    /\ ~nodes[3].active
    /\ nodes[8].ctor = "chordial.control_value" /\ nodes[8].value = 1

\* the attack, decay, sustain gain tf frames after the start: 0 to 1 over
\* atk, 1 to sus over dec, then sus
Ads(a, tf) ==
    LET sr == Config.sample_rate
        t2 == tf * One - a.atk * sr
    IN  IF tf * One < a.atk * sr THEN (tf * One * One) \div (a.atk * sr)
        ELSE IF t2 < a.dec * sr THEN One - ((One - a.sus) * t2) \div (a.dec * sr)
        ELSE a.sus

\* C31: while active the gain is the attack, decay, sustain value (1 at the
\* end of the attack, sus at the end of the decay and after it); once
\* released it is that value at end_frame times a linear fade from 1 to 0
\* over rel, and 0 after rel
C31_GainFollowsAdsr ==
    LET a == last.arg
        sr == Config.sample_rate
    IN  /\ last.op = "get_gain" =>
               /\ last.ret = Ads(a, last.len)
               /\ (last.len * One = a.atk * sr /\ a.dec > 0) => last.ret = One
               /\ last.len * One >= (a.atk + a.dec) * sr => last.ret = a.sus
        /\ (last.op = "get_gain_released" /\ a.rel > 0) =>
               last.ret = IF last.len * One > a.rel * sr THEN 0
                          ELSE (Ads(a, last.prior[1]) * (a.rel * sr - last.len * One))
                                   \div (a.rel * sr)

\* C32: under continuous playback from position 0, whatever the split into
\* buffers, the Trigger's output is 1.0 in the global frame
\* tl_units_to_frames(node position) and 0.0 in every other frame
C32_TriggerPulsesOnce ==
    (/\ PlayedRender /\ last.status = "ok"
     /\ 3 \in DOMAIN nodes /\ nodes[3].ctor = "chordial.trigger") =>
        \A k \in 1..last.len :
            ReceivedOr(OutputRef(3, 0), k, 0)
                = IF position - last.len + (k - 1) = TlUnitsToFrames(nodes[3].tl.position)
                  THEN One ELSE 0

\* the messages of `chain` on channel k, from the j-th on, in order
RECURSIVE OnChannel(_, _, _)
OnChannel(chain, k, j) ==
    IF j > Len(chain) THEN <<>>
    ELSE (IF chain[j].channel = k THEN <<chain[j]>> ELSE <<>>) \o OnChannel(chain, k, j + 1)

\* C33: in every frame output k of the MidiSplit holds exactly the input
\* messages of channel k, in input order; unchanged with keep_channel, and
\* otherwise with the same code and data and channel 0
C33_SplitPartitionsByChannel ==
    last.op = "midi_split.render" =>
        /\ last.status = "ok"
        /\ Len(last.out) = Len(last.arg.input)
        /\ \A f \in 1..Len(last.arg.input) :
               LET sel == OnChannel(last.arg.input[f], last.len, 1) IN
               /\ Len(last.out[f]) = Len(sel)
               /\ \A j \in 1..Len(sel) :
                      /\ last.out[f][j].code = sel[j].code
                      /\ last.out[f][j].note = sel[j].note
                      /\ last.out[f][j].vel = sel[j].vel
                      /\ last.out[f][j].channel =
                             IF last.arg.keep_channel THEN sel[j].channel ELSE 0

\* the OutputRefs stored in the input lists of the nodes ns
StoredRefs(ns) ==
    UNION {UNION {{ns[n].inputs[k].refs[j] : j \in 1..Len(ns[n].inputs[k].refs)} :
                  k \in 1..Len(ns[n].inputs)} :
           n \in DOMAIN ns}

\* C34: every OutputRef stored in an input list names a node of the engine
\* and an output index below that node's output count
C34_RefsNameExistingOutputs ==
    Alive =>
        \A ref \in StoredRefs(nodes) :
            /\ ref.node \in DOMAIN nodes
            /\ ref.output < Len(nodes[ref.node].outputs)

\* the nodes that keep a playback counter of their own: Sine.pos,
\* Trigger.tl_pos, Envelope.pos, MidiClip.playback_pos
CountingCtors ==
    {"chordial.sine", "chordial.trigger", "chordial.envelope", "chordial.midi_clip"}

\* C35: the playback counter of every node equals Engine.position
C35_CountersFollowTransport ==
    Alive =>
        \A n \in DOMAIN nodes :
            nodes[n].ctor \in CountingCtors => nodes[n].pos = position

\* the last operation handled a message that is neither NoteOn nor NoteOff
OtherStatus ==
    /\ last.op \in {"mono.apply_midi_message", "poly.apply_midi_message", "midi_split.route"}
    /\ last.arg.some.code \notin {"NoteOn", "NoteOff"}

\* C36: a message whose status is neither NoteOn nor NoteOff leaves the
\* tracker as it was and raises no error, applied to a tracker or routed
\* through a MidiSplit
C36_OtherStatusIgnored ==
    OtherStatus =>
        /\ last.status = "ok"
        /\ last.op # "midi_split.route" =>
               last.ret = IF voice_tracker.mono # None THEN voice_tracker.mono
                          ELSE voice_tracker.poly

\* the last operation applied a NoteOff, or a NoteOn with velocity 0
ReleaseApplied ==
    /\ last.op \in {"mono.apply_midi_message", "poly.apply_midi_message"}
    /\ last.status = "ok"
    /\ \/ last.arg.some.code = "NoteOff"
       \/ last.arg.some.code = "NoteOn" /\ last.arg.some.vel = 0

\* C37: with release_length > 0 a NoteOff (or NoteOn with velocity 0) for
\* the channel and note of a voice that is already released leaves its
\* release_point as it was
C37_ReleasePointKept ==
    ReleaseApplied =>
        LET msg == last.arg.some
            before == last.ret.some
            key == <<msg.channel, msg.note>>
        IN  /\ (/\ last.op = "mono.apply_midi_message"
                /\ before.release_length > 0
                /\ before.voice # None
                /\ before.voice.some.released
                /\ before.voice.some.channel = msg.channel
                /\ before.voice.some.note = msg.note)
                   => /\ voice_tracker.mono.some.voice # None
                      /\ voice_tracker.mono.some.voice.some.release_point
                             = before.voice.some.release_point
            /\ (/\ last.op = "poly.apply_midi_message"
                /\ before.release_length > 0
                /\ key \in DOMAIN before.voices
                /\ before.voices[key].released)
                   => /\ key \in DOMAIN voice_tracker.poly.some.voices
                      /\ voice_tracker.poly.some.voices[key].release_point
                             = before.voices[key].release_point

\* the bytes of the records of the channels i.. of a block: 9 for the
\* channel byte and the 64-bit count, 18 for every note
RECURSIVE RecordBytes(_, _)
RecordBytes(block, i) ==
    IF i > NumChannels THEN 0
    ELSE (IF block.channels[i] = <<>> THEN 0 ELSE 9 + 18 * Len(block.channels[i]))
         + RecordBytes(block, i + 1)

\* C38: save writes one record per non-empty channel (channel byte, 64-bit
\* count, count note records), and load of the saved bytes returns and
\* leaves the block loaded into equal to the saved block, channel by channel
\* and note by note in order, whatever it held before
C38_MidiBlockRoundTrip ==
    /\ last.op \in {"midi_block.save", "midi_block.load"} =>
           Len(last.out) = RecordBytes(last.arg.block, 1)
    /\ last.op = "midi_block.load" =>
           /\ last.status = "ok"
           /\ last.ret = last.arg.block

\* bytes of a block with notes on two channels, two of them on one, were
\* loaded into a block that held other notes
C38_Witness ==
    /\ last.op = "midi_block.load"
    /\ Len(last.arg.block.channels[1]) = 2
    /\ Len(last.arg.block.channels[16]) = 1
    /\ last.arg.previous.channels[3] # <<>>
    /\ last.ret.channels[1][1].len = 70000

\* the slot of node n and the engine's handle id point to one allocation
\* and read the same data
SameInstance(ns, rs, n, id) ==
    /\ ns[n].data # None
    /\ id \in DOMAIN rs
    /\ ns[n].data.some.arc = rs[id].arc
    /\ ns[n].data.some.id = id
    /\ ns[n].data.some.data = rs[id].data

\* C39: a link_resource that returns leaves the slot non-empty, reporting
\* the id, on the instance of the engine's handle, and from then on a
\* change made through either handle is read through the other; a
\* link_resource of a resource of another kind is fatal and leaves the slot
\* as it was; a slot no link_resource was made on stays empty
C39_LinkSharesInstance ==
    [][/\ (last'.op = "link_resource" /\ last'.status = "ok") =>
              SameInstance(nodes', resources', last'.arg.some.node, last'.arg.some.id)
       /\ \A n \in DOMAIN nodes :
              (/\ last'.op \in {"apply_action", "slot.apply_action"}
               /\ nodes[n].data # None
               /\ SameInstance(nodes, resources, n, nodes[n].data.some.id))
                  => SameInstance(nodes', resources', n, nodes[n].data.some.id)
       /\ (/\ last'.op = "link_resource"
           /\ last'.arg.some.id \in DOMAIN resources
           /\ last'.arg.some.resource = "data"
           /\ resources[last'.arg.some.id].kind # "MidiBlock")
              => /\ last'.status = "panic"
                 /\ nodes'[last'.arg.some.node].data = nodes[last'.arg.some.node].data
       /\ \A n \in DOMAIN nodes \cap DOMAIN nodes' :
              (/\ nodes[n].data = None
               /\ ~(last'.op = "link_resource" /\ last'.arg.some.node = n))
                  => nodes'[n].data = None]_vars

\* two MidiClips are linked to one block, and a note added through the slot
\* of one of them is read through the engine's handle and the other slot
C39_Witness ==
    /\ last.op = "slot.apply_action" /\ last.status = "ok"
    /\ \E n, m \in DOMAIN nodes :
           /\ n # m /\ n = last.arg.some.node
           /\ nodes[n].data # None /\ nodes[m].data # None
           /\ nodes[n].data.some.arc = nodes[m].data.some.arc
           /\ nodes[m].data.some.data.channels[1] = <<last.arg.some.note>>
           /\ resources[nodes[n].data.some.id].data.channels[1] = <<last.arg.some.note>>

\* out is in times 10^(gain / 10), for the gains that are multiples of 10 dB
TimesPowerFactor(gain, in, out) ==
    CASE gain = 0   -> out = in
      [] gain = 10  -> out = 10 * in
      [] gain = 20  -> out = 100 * in
      [] gain = -10 -> 10 * out = in
      [] gain = -20 -> 100 * out = in

\* C40: Gain multiplies every frame of its input, both channels, by
\* 10^(gain / 10): gain 0 leaves the buffer as it was, gain 10 multiplies
\* by 10, gain -10 by 0.1; at 20 dB the factor is 100, not the 10 of
\* 10^(gain / 20)
C40_GainIsPowerFactor ==
    last.op = "render_effect" =>
        /\ last.status = "ok"
        /\ Len(last.out) = Len(last.arg.data)
        /\ \A k \in 1..Len(last.out), c \in 1..2 :
               /\ TimesPowerFactor(last.arg.gain, last.arg.data[k][c], last.out[k][c])
               /\ (last.arg.gain = 20 /\ last.arg.data[k][c] # 0)
                      => last.out[k][c] # 10 * last.arg.data[k][c]

\* a two-frame buffer with the samples 25.0 and -25.0 came out of a Gain of
\* -10 dB as 2.5 and -2.5
C40_Witness ==
    /\ last.op = "render_effect" /\ last.status = "ok"
    /\ last.arg.gain = -10
    /\ last.arg.data = << <<100, -100>>, <<-100, 0>> >>
    /\ last.out = << <<10, -10>>, <<-10, 0>> >>

\* C7: delete_node(N) removes N and every OutputRef naming N, keeps every
\* other OutputRef in order and everything else of every other node; on an
\* id that is not present it changes nothing.
C7_DeleteScrubsExactly ==
    [][last'.op = "delete" =>
          LET N == last'.arg.some IN
          /\ node_counter' = node_counter /\ playing' = playing /\ position' = position
          /\ IF N \notin DOMAIN nodes THEN nodes' = nodes
             ELSE /\ DOMAIN nodes' = DOMAIN nodes \ {N}
                  /\ \A n \in DOMAIN nodes' :
                        /\ [nodes'[n] EXCEPT !.inputs = <<>>] = [nodes[n] EXCEPT !.inputs = <<>>]
                        /\ Len(nodes'[n].inputs) = Len(nodes[n].inputs)
                        /\ \A k \in 1..Len(nodes[n].inputs) :
                              /\ nodes'[n].inputs[k].scratch = nodes[n].inputs[k].scratch
                              /\ nodes'[n].inputs[k].refs =
                                    SelectSeq(nodes[n].inputs[k].refs,
                                              LAMBDA r : r.node # N)]_vars

C7_Witness ==
    /\ last.op = "delete" /\ last.arg = Some(1)
    /\ DOMAIN nodes = {0, 2}
    /\ nodes[0].inputs[1].refs = <<OutputRef(2, 0)>>
    /\ nodes[2].inputs[1].refs = <<>>

\* C8: create_node stores the new node under the smallest id not in use.
C8_SmallestUnusedId ==
    (last.op = "create" /\ last.ret # None) =>
        \A id \in 0..last.ret.some : id \in DOMAIN nodes

\* C9: node 0 exists and is the Sink in every state the engine reaches.
C9_SinkIsNodeZero ==
    last.status = "ok" => (0 \in DOMAIN nodes /\ nodes[0].ctor = "chordial.sink")

\* C10: after a render with playing true every node, reachable from the
\* Sink or not, has advanced by the buffer length exactly once, and every
\* input scratch buffer and every output cache is empty.
C10_AllAdvancedAndCleared ==
    [][(last'.op = "render" /\ playing /\ last'.status = "ok") =>
          /\ DOMAIN nodes' = DOMAIN nodes
          /\ \A n \in DOMAIN nodes :
                /\ nodes'[n].pos =
                      IF nodes[n].ctor \in {"chordial.sine", "chordial.envelope",
                                            "chordial.trigger", "chordial.polyosc",
                                            "chordial.midi_clip"}
                      THEN nodes[n].pos + last'.len ELSE nodes[n].pos
                /\ \A k \in 1..Len(nodes'[n].inputs) :
                      BufferLen(nodes'[n].inputs[k].scratch) = 0
                /\ \A k \in 1..Len(nodes'[n].outputs) :
                      BufferLen(nodes'[n].outputs[k]) = 0]_vars

C10_Witness ==
    /\ PlayedRender /\ last.status = "ok" /\ last.len = 2
    /\ Events(last.log, "render", OutputRef(1, 0)) # {}
    /\ \E n \in DOMAIN nodes \ Upstream(nodes, {0}) :
          nodes[n].ctor = "chordial.sine" /\ nodes[n].pos = 2
====
